---------------------------- MODULE Spec2Model ----------------------------
(***************************************************************************)
(* A model of libkhax (khaxinit.cpp): the version registry, the legacy     *)
(* heap-coalesce machine MemChunkHax, the vtable machine MemChunkHax2 and  *)
(* the driver khaxInit.                                                    *)
(*                                                                         *)
(* Representation of machine words.  TLC's integers are 32-bit signed, so  *)
(*   - a Result (s32) is an integer, error codes being negative;           *)
(*   - a kernel version (u32, always below 2^31 here) is an integer;       *)
(*   - an address or any other u32 is a pair <<hi, lo>> of 16-bit halves,  *)
(*     with arithmetic modulo 2^32.                                        *)
(***************************************************************************)
EXTENDS Integers, Sequences, FiniteSets, TLC

-----------------------------------------------------------------------------
(* 32-bit words as pairs of 16-bit halves                                  *)

W(hi, lo) == <<hi, lo>>

Add32(a, b) ==
  LET lo == a[2] + b[2]
      hi == a[1] + b[1] + (lo \div 65536)
  IN  <<hi % 65536, lo % 65536>>

Sub32(a, b) ==
  LET lo == a[2] - b[2]
      hi == a[1] - b[1] - (IF lo < 0 THEN 1 ELSE 0)
  IN  <<(hi + 65536) % 65536, (lo + 65536) % 65536>>

Lt32(a, b) == a[1] < b[1] \/ (a[1] = b[1] /\ a[2] < b[2])

Ge32(a, b) == ~Lt32(a, b)

NULL32 == W(0, 0)

\* A 32-bit word read as a signed Result.
ToResult(w) == IF w[1] >= 32768 THEN (w[1] - 65536) * 65536 + w[2]
               ELSE w[1] * 65536 + w[2]

\* (level << 27) + (summary << 21) + (module << 10) + error, modulo 2^32.
KHAX_MODULE == 254

MakeError(level, summary, module, error) ==
  ToResult(Add32(Add32(W((level * 2048) % 65536, 0),
                       W((summary * 32) % 65536, 0)),
                 Add32(W((module * 1024) \div 65536, (module * 1024) % 65536),
                       W(error \div 65536, error % 65536))))

\* The code every step returns when it is invoked out of order.
SeqError == MakeError(28, 5, KHAX_MODULE, 1016)

\* The code khaxInit returns when no table row matches.
UnknownVersionError == MakeError(27, 6, KHAX_MODULE, 39)

\* ctrulib's SYSTEM_VERSION(major, minor, revision).
SYSTEM_VERSION(major, minor, revision) ==
  major * 16777216 + minor * 65536 + revision * 256

-----------------------------------------------------------------------------
(* Class VersionData                                                       *)

m_threadPatchOriginalCode == W(\H8DD0, \H0CE5)
m_fcramPhysicalAddress == W(\H2000, 0)
m_slabHeapPhysicalAddress == W(\H1FFA, 0)
m_kernelVirtualToPhysical == W(\H4000, 0)

\* Variant of Row: the hardware-variant flag is dropped from the entry.
Row_NoVariant(new3DS, kver, nominal, threadPatch, syscallPatch, fcramVA, fcramSize, slabVA, kproc) ==
  [m_new3DS |-> FALSE, m_kernelVersion |-> kver, m_nominalVersion |-> nominal,
   m_threadPatchAddress |-> threadPatch, m_syscallPatchAddress |-> syscallPatch,
   m_fcramVirtualAddress |-> fcramVA, m_fcramSize |-> fcramSize,
   m_slabHeapVirtualAddress |-> slabVA, m_makeKProcessPointers |-> kproc]

Row(new3DS, kver, nominal, threadPatch, syscallPatch, fcramVA, fcramSize, slabVA, kproc) ==
  [m_new3DS |-> new3DS, m_kernelVersion |-> kver, m_nominalVersion |-> nominal,
   m_threadPatchAddress |-> threadPatch, m_syscallPatchAddress |-> syscallPatch,
   m_fcramVirtualAddress |-> fcramVA, m_fcramSize |-> fcramSize,
   m_slabHeapVirtualAddress |-> slabVA, m_makeKProcessPointers |-> kproc]

s_versionTable ==
  << \* Old 3DS, old address layout
     Row(FALSE, SYSTEM_VERSION(2, 34, 0), SYSTEM_VERSION(4, 1, 0), W(\HEFF8, \H3C9F), W(\HEFF8, \H27CC), W(\HF000, 0), W(\H0800, 0), W(\HFFF0, 0), "1_0_0_Old"),
     Row(FALSE, SYSTEM_VERSION(2, 35, 6), SYSTEM_VERSION(5, 0, 0), W(\HEFF8, \H3737), W(\HEFF8, \H22A8), W(\HF000, 0), W(\H0800, 0), W(\HFFF7, 0), "1_0_0_Old"),
     Row(FALSE, SYSTEM_VERSION(2, 36, 0), SYSTEM_VERSION(5, 1, 0), W(\HEFF8, \H3733), W(\HEFF8, \H22A4), W(\HF000, 0), W(\H0800, 0), W(\HFFF7, 0), "1_0_0_Old"),
     Row(FALSE, SYSTEM_VERSION(2, 37, 0), SYSTEM_VERSION(6, 0, 0), W(\HEFF8, \H3733), W(\HEFF8, \H22A4), W(\HF000, 0), W(\H0800, 0), W(\HFFF7, 0), "1_0_0_Old"),
     Row(FALSE, SYSTEM_VERSION(2, 38, 0), SYSTEM_VERSION(6, 1, 0), W(\HEFF8, \H3733), W(\HEFF8, \H22A4), W(\HF000, 0), W(\H0800, 0), W(\HFFF7, 0), "1_0_0_Old"),
     Row(FALSE, SYSTEM_VERSION(2, 39, 4), SYSTEM_VERSION(7, 0, 0), W(\HEFF8, \H3737), W(\HEFF8, \H22A8), W(\HF000, 0), W(\H0800, 0), W(\HFFF0, 0), "1_0_0_Old"),
     Row(FALSE, SYSTEM_VERSION(2, 40, 0), SYSTEM_VERSION(7, 2, 0), W(\HEFF8, \H3733), W(\HEFF8, \H22A4), W(\HF000, 0), W(\H0800, 0), W(\HFFF0, 0), "1_0_0_Old"),
     \* Old 3DS, new address layout
     Row(FALSE, SYSTEM_VERSION(2, 44, 6), SYSTEM_VERSION(8, 0, 0), W(\HDFF8, \H376F), W(\HDFF8, \H2294), W(\HE000, 0), W(\H0800, 0), W(\HFFF0, 0), "8_0_0_Old"),
     Row(FALSE, SYSTEM_VERSION(2, 46, 0), SYSTEM_VERSION(9, 0, 0), W(\HDFF8, \H383F), W(\HDFF8, \H2290), W(\HE000, 0), W(\H0800, 0), W(\HFFF7, 0), "8_0_0_Old"),
     \* memchunkhax does not apply to these, so patch addresses are set to 0x0.
     Row(FALSE, SYSTEM_VERSION(2, 48, 3), SYSTEM_VERSION(9, 3, 0), NULL32, NULL32, W(\HE000, 0), W(\H0800, 0), W(\HFFF7, 0), "8_0_0_Old"),
     Row(FALSE, SYSTEM_VERSION(2, 49, 0), SYSTEM_VERSION(9, 5, 0), NULL32, NULL32, W(\HE000, 0), W(\H0800, 0), W(\HFFF7, 0), "8_0_0_Old"),
     Row(FALSE, SYSTEM_VERSION(2, 50, 1), SYSTEM_VERSION(9, 6, 0), NULL32, NULL32, W(\HE000, 0), W(\H0800, 0), W(\HFFF7, 0), "8_0_0_Old"),
     Row(FALSE, SYSTEM_VERSION(2, 50, 7), SYSTEM_VERSION(10, 0, 0), NULL32, NULL32, W(\HE000, 0), W(\H0800, 0), W(\HFFF7, 0), "8_0_0_Old"),
     Row(FALSE, SYSTEM_VERSION(2, 50, 9), SYSTEM_VERSION(10, 2, 0), NULL32, NULL32, W(\HE000, 0), W(\H0800, 0), W(\HFFF7, 0), "8_0_0_Old"),
     \* New 3DS
     Row(TRUE, SYSTEM_VERSION(2, 45, 5), SYSTEM_VERSION(8, 1, 0), W(\HDFF8, \H3757), W(\HDFF8, \H2264), W(\HE000, 0), W(\H1000, 0), W(\HFFF7, 0), "8_0_0_New"),
     Row(TRUE, SYSTEM_VERSION(2, 46, 0), SYSTEM_VERSION(9, 0, 0), W(\HDFF8, \H3837), W(\HDFF8, \H2260), W(\HE000, 0), W(\H1000, 0), W(\HFFF7, 0), "8_0_0_New"),
     \* memchunkhax does not apply to these, so patch addresses are set to 0x0.
     Row(TRUE, SYSTEM_VERSION(2, 48, 3), SYSTEM_VERSION(9, 3, 0), NULL32, NULL32, W(\HE000, 0), W(\H1000, 0), W(\HFFF7, 0), "8_0_0_New"),
     Row(TRUE, SYSTEM_VERSION(2, 49, 0), SYSTEM_VERSION(9, 5, 0), NULL32, NULL32, W(\HE000, 0), W(\H1000, 0), W(\HFFF7, 0), "8_0_0_New"),
     Row(TRUE, SYSTEM_VERSION(2, 50, 1), SYSTEM_VERSION(9, 6, 0), NULL32, NULL32, W(\HE000, 0), W(\H1000, 0), W(\HFFF7, 0), "8_0_0_New"),
     Row(TRUE, SYSTEM_VERSION(2, 50, 7), SYSTEM_VERSION(10, 0, 0), NULL32, NULL32, W(\HE000, 0), W(\H1000, 0), W(\HFFF7, 0), "8_0_0_New"),
     Row(TRUE, SYSTEM_VERSION(2, 50, 9), SYSTEM_VERSION(10, 2, 0), NULL32, NULL32, W(\HE000, 0), W(\H1000, 0), W(\HFFF7, 0), "8_0_0_New") >>

\* A VersionData pointer is an index into s_versionTable; nullptr is 0.
nullptr == 0

\* IsNew3DS(answer, kernelVersionAlreadyKnown): <<result, answer>>.  `apt' is
\* what APT_CheckNew3DS would return: [res |-> Result, flag |-> BOOLEAN].
\* `requeried' is what a second osGetKernelVersion() call returns.
IsNew3DS(kernelVersionAlreadyKnown, requeried, apt) ==
  LET kernelVersion == IF kernelVersionAlreadyKnown = 0 THEN requeried
                       ELSE kernelVersionAlreadyKnown
  IN  IF kernelVersion >= SYSTEM_VERSION(2, 44, 6)
      THEN IF apt.res # 0 THEN <<apt.res, FALSE>>
           ELSE <<0, apt.flag>>
      ELSE <<0, FALSE>>

\* Variant of ScanFrom: the scan compares the kernel version only.
ScanFrom_VersionOnly(table, i, kernelVersion, isNew3DS) ==
  LET hits == {j \in i .. Len(table) : table[j].m_kernelVersion = kernelVersion}
  IN  IF hits = {} THEN nullptr ELSE CHOOSE j \in hits : \A l \in hits : j <= l

\* The linear scan of GetForCurrentSystem from entry i on: the first entry
\* whose flag and version both match, or nullptr.
RECURSIVE ScanFrom(_, _, _, _)
ScanFrom(table, i, kernelVersion, isNew3DS) ==
  IF i > Len(table) THEN nullptr
  ELSE IF (table[i].m_new3DS /\ ~isNew3DS) \/ (~table[i].m_new3DS /\ isNew3DS)
       THEN ScanFrom(table, i + 1, kernelVersion, isNew3DS)
  ELSE IF table[i].m_kernelVersion # kernelVersion
       THEN ScanFrom(table, i + 1, kernelVersion, isNew3DS)
  ELSE i

\* Variant of GetForCurrentSystem: the result of IsNew3DS is not tested.
GetForCurrentSystem_IgnoreQueryFailure(kernelVersion, apt) ==
  ScanFrom(s_versionTable, 1, kernelVersion,
           IsNew3DS(kernelVersion, kernelVersion, apt)[2])

GetForCurrentSystem(kernelVersion, apt) ==
  LET r == IsNew3DS(kernelVersion, kernelVersion, apt)
  IN  IF r[1] # 0 THEN nullptr
      ELSE ScanFrom(s_versionTable, 1, kernelVersion, r[2])

-----------------------------------------------------------------------------
(* The host: address translation and the kernel's page heap                *)

\* Result of a host call that fails (any negative Result will do).
HostError == MakeError(27, 1, 1, 1)

\* ctrulib's osConvertVirtToPhys: the linear heap (old and new mapping), VRAM
\* and DSP memory translate, everything else gives 0.
osConvertVirtToPhys(va) ==
  IF Ge32(va, W(\H1400, 0)) /\ Lt32(va, W(\H1C00, 0)) THEN Add32(va, W(\H0C00, 0))
  ELSE IF Ge32(va, W(\H1F00, 0)) /\ Lt32(va, W(\H1F60, 0)) THEN Sub32(va, W(\H0700, 0))
  ELSE IF Ge32(va, W(\H1FF0, 0)) /\ Lt32(va, W(\H1FF8, 0)) THEN va
  ELSE IF Ge32(va, W(\H3000, 0)) /\ Lt32(va, W(\H4000, 0)) THEN Sub32(va, W(\H1000, 0))
  ELSE NULL32

\* Variant of ConvertLinearUserVAToKernelVA: the physical base is not
\* subtracted.
ConvertLinearUserVAToKernelVA_NoRebase(row, address) ==
  LET physical == osConvertVirtToPhys(address)
  IN  IF physical = NULL32 THEN NULL32
      ELSE IF Lt32(physical, m_fcramPhysicalAddress)
              \/ Ge32(Sub32(physical, m_fcramPhysicalAddress), row.m_fcramSize)
           THEN NULL32
      ELSE Add32(row.m_fcramVirtualAddress, physical)

\* Variant of ConvertLinearUserVAToKernelVA: the upper bound test is off by
\* one.
ConvertLinearUserVAToKernelVA_OffByOne(row, address) ==
  LET physical == osConvertVirtToPhys(address)
  IN  IF physical = NULL32 THEN NULL32
      ELSE IF Lt32(physical, m_fcramPhysicalAddress)
              \/ Lt32(row.m_fcramSize, Sub32(physical, m_fcramPhysicalAddress))
           THEN NULL32
      ELSE Add32(row.m_fcramVirtualAddress, Sub32(physical, m_fcramPhysicalAddress))

ConvertLinearUserVAToKernelVA(row, address) ==
  LET physical == osConvertVirtToPhys(address)
  IN  IF physical = NULL32 THEN NULL32
      ELSE IF Lt32(physical, m_fcramPhysicalAddress)
              \/ Ge32(Sub32(physical, m_fcramPhysicalAddress), row.m_fcramSize)
           THEN NULL32
      ELSE Add32(row.m_fcramVirtualAddress, Sub32(physical, m_fcramPhysicalAddress))

\* The six pages of OverwriteMemory.
Pages == 0 .. 5

\* offsetof(HeapFreeBlock, m_next) and offsetof(HeapFreeBlock, m_prev).
OffNext == W(0, 4)
OffPrev == W(0, 8)

\* User address of m_pages[x] of the block at `base'.
PageAddr(base, x) == Add32(base, W(0, 4096 * x))

\* The kernel's own address of page x of the block at user address `base'.
KPage(row, base, x) ==
  Add32(row.m_fcramVirtualAddress,
        Sub32(osConvertVirtToPhys(PageAddr(base, x)), m_fcramPhysicalAddress))

\* Free blocks of the kernel heap below and above the six pages.
BeforeBlock(row) == Add32(row.m_fcramVirtualAddress, W(\H0008, 0))
AfterBlock(row) == Add32(row.m_fcramVirtualAddress, W(\H07F0, 0))

Bit(mask, x) == (mask \div (2 ^ x)) % 2 = 1
ClearBit(mask, x) == IF Bit(mask, x) THEN mask - 2 ^ x ELSE mask

\* A store of `val' at kernel address `addr': the patched instruction, a link
\* field of one of the six pages, a link field of a block outside them, or
\* anything else (recorded as a wild write).
KernelWrite(k, row, addr, val) ==
  IF row.m_threadPatchAddress # NULL32 /\ addr = row.m_threadPatchAddress
    THEN [k EXCEPT !.patchWord = val]
  ELSE IF \E x \in Pages : addr = Add32(KPage(row, k.base, x), OffPrev)
    THEN LET x == CHOOSE y \in Pages : addr = Add32(KPage(row, k.base, y), OffPrev)
         IN  [k EXCEPT !.blk[x].m_prev = val]
  ELSE IF \E x \in Pages : addr = Add32(KPage(row, k.base, x), OffNext)
    THEN LET x == CHOOSE y \in Pages : addr = Add32(KPage(row, k.base, y), OffNext)
         IN  [k EXCEPT !.blk[x].m_next = val]
  ELSE IF addr \in {Add32(BeforeBlock(row), OffNext), Add32(AfterBlock(row), OffPrev)}
    THEN k
  ELSE [k EXCEPT !.wild = TRUE]

\* The kernel's store of `val' in field `off' of the block a link names; a
\* null link ends the list and nothing is stored.
LinkStore(k, row, link, off, val) ==
  IF link = NULL32 THEN k ELSE KernelWrite(k, row, Add32(link, off), val)

\* First page of the free block that free page q belongs to.
RECURSIVE HeadOf(_, _)
HeadOf(k, q) == IF q > 0 /\ (q - 1) \notin k.alloc THEN HeadOf(k, q - 1) ELSE q

\* svcControlMemory(MEMOP_FREE) of page x, when the kernel carries it out.
\* The free list is doubly linked in address order.  Freeing a block left of
\* an adjacent free block coalesces:
\*   left->m_next = right->m_next;  right->m_next->m_prev = left;
\* using the link stored in the right block.
KernelFree(k, row, x) ==
  LET free == Pages \ k.alloc
      leftFree == x > 0 /\ (x - 1) \in free
      rightFree == x < 5 /\ (x + 1) \in free
      left == IF leftFree THEN HeadOf(k, x - 1) ELSE x
      below == {q \in free : q < x /\ HeadOf(k, q) = q}
      above == {q \in free : q > x /\ HeadOf(k, q) = q}
      pred == IF below = {} THEN BeforeBlock(row)
              ELSE KPage(row, k.base, CHOOSE q \in below : \A r \in below : r <= q)
      succ == IF above = {} THEN AfterBlock(row)
              ELSE KPage(row, k.base, CHOOSE q \in above : \A r \in above : q <= r)
      k1 == [k EXCEPT !.alloc = @ \ {x}, !.freed = Append(@, x)]
  IN  IF rightFree
        THEN LET rn == k.blk[x + 1].m_next
                 k2 == IF leftFree THEN [k1 EXCEPT !.blk[left].m_next = rn]
                       ELSE LinkStore(
                              [k1 EXCEPT !.blk[x] = [m_next |-> rn,
                                                     m_prev |-> k.blk[x + 1].m_prev]],
                              row, k.blk[x + 1].m_prev, OffNext,
                              KPage(row, k.base, x))
             IN  LinkStore(k2, row, rn, OffPrev, KPage(row, k.base, left))
      ELSE IF leftFree THEN k1
      ELSE LinkStore(
             LinkStore([k1 EXCEPT !.blk[x] = [m_next |-> succ, m_prev |-> pred]],
                       row, pred, OffNext, KPage(row, k.base, x)),
             row, succ, OffPrev, KPage(row, k.base, x))

-----------------------------------------------------------------------------
(* State                                                                   *)

VARIABLES
  kernelVersion,  \* what osGetKernelVersion() returns
  apt,            \* what APT_CheckNew3DS returns: [res, flag]
  pc,             \* where the main thread is
  versionData,    \* khaxInit's versionData (index into s_versionTable, or nullptr)
  machine,        \* the state machine khaxInit chose: "none", "legacy" or "vtable"
  hax,            \* the MemChunkHax object
  s_instance,     \* MemChunkHax::s_instance: "nullptr" or "this"
  hax2,           \* the MemChunkHax2 object
  s_instance2,    \* MemChunkHax2::s_instance: "nullptr" or "this"
  kern,           \* kernel and host state the legacy machine acts on
  res,            \* result of the step called last
  steps,          \* the step calls made so far, as <<step, result>>
  dtorFreed,      \* pages the destructor has issued a free for, in order
  ret             \* khaxInit's return value once it has returned

vars == <<kernelVersion, apt, pc, versionData, machine, hax, s_instance, hax2,
          s_instance2, kern, res, steps, dtorFreed, ret>>

\* `ret' is <<>> until khaxInit returns, and <<code>> afterwards.
NoReturn == <<>>
Returned(code) == <<code>>

\* Contents of a HeapFreeBlock that matter here.
FreeBlock(next, prev) == [m_next |-> next, m_prev |-> prev]

\* MemChunkHax::MemChunkHax(versionData).  m_oldACL and m_originalPID are not
\* initialised by the constructor; `acl0' and `pid0' are what their storage holds.
NewMemChunkHax(vd, acl0, pid0) ==
  [m_versionData |-> vd, m_nextStep |-> 1, m_corrupted |-> 0,
   m_overwriteMemory |-> NULL32, m_overwriteAllocated |-> 0,
   m_extraLinear |-> NULL32, extra |-> FreeBlock(NULL32, NULL32),
   m_oldACL |-> acl0, m_originalPID |-> pid0]

\* The storage of a hack object before its constructor has run.
RawMemChunkHax(acl0, pid0) ==
  [NewMemChunkHax(nullptr, acl0, pid0) EXCEPT !.m_nextStep = 0]

\* One outcome of a step: the object and the kernel afterwards, and the result.
\* `returns' is FALSE when the step never comes back to its caller.
Out(h, k, r) == [hax |-> h, kern |-> k, res |-> r, returns |-> TRUE]

VD(h) == s_versionTable[h.m_versionData]

-----------------------------------------------------------------------------
(* Host calls                                                              *)

\* How many frees of an allocated page the host may refuse in one run.
MaxFreeFailures == 1

\* svcControlMemory(MEMOP_FREE) of m_pages[x]: the kernel carries it out and
\* returns 0, or fails and changes nothing.  A page that is not allocated
\* cannot be freed: the request is refused and counted as a double free.
FreeOutcomes(h, k, x) ==
  LET k1 == [k EXCEPT !.calls = Append(@, <<"free", x>>)]
  IN  IF x \notin k.alloc
        THEN {<<HostError, [k1 EXCEPT !.doubleFrees = @ + 1]>>}
      ELSE {<<0, KernelFree(k1, VD(h), x)>>}
           \cup (IF k.freeFailures < MaxFreeFailures
                   THEN {<<HostError, [k1 EXCEPT !.freeFailures = @ + 1]>>}
                   ELSE {})

\* NukeDataCache: 0, or the allocation of the dummy buffer fails.
NukeDataCache == {0, MakeError(26, 3, KHAX_MODULE, 1011)}

\* GSPwn(dest, src, size): the outcomes as [issued, res]: GX_TextureCopy fails
\* and nothing is copied, or the copy is issued and NukeDataCache decides.
GSPwn ==
  {[issued |-> FALSE, res |-> HostError]}
  \cup {[issued |-> TRUE, res |-> r] : r \in NukeDataCache}

-----------------------------------------------------------------------------
(* Class MemChunkHax                                                       *)

\* Variant of Step1_Initialize: the step counter is not tested.
Step1_Unguarded(h, k) == {Out([h EXCEPT !.m_nextStep = @ + 1], k, 0)}

Step1_Initialize(h, k) ==
  IF h.m_nextStep # 1 THEN {Out(h, k, SeqError)}
  ELSE {Out([h EXCEPT !.m_nextStep = @ + 1], k, 0)}

\* Addresses svcControlMemory(MEMOP_ALLOC_LINEAR) may return, and addresses
\* linearMemAlign may return (or null).
LinearAddresses == {W(\H1410, 0), W(\H3020, 0), W(\H1410, \H0800)}
ExtraAddresses == {NULL32, W(\H1400, \H0040)}

Misaligned(address) == address[2] % 4096 # 0

\* Variant of Step2_AllocateMemory: the block is recorded only after the
\* alignment test.
Step2_RecordsLate(h, k) ==
  IF h.m_nextStep # 2 THEN {Out(h, k, SeqError)}
  ELSE
    {Out(h, [k EXCEPT !.calls = Append(@, <<"alloc_linear", 6>>)], HostError)}
    \cup UNION {
      LET k1 == [k EXCEPT !.calls = Append(@, <<"alloc_linear", 6>>),
                          !.base = address, !.alloc = Pages]
          h1 == [h EXCEPT !.m_overwriteMemory = address,
                          !.m_overwriteAllocated = (2 ^ 6) - 1]
      IN  IF Misaligned(address)
            THEN {Out(h, k1, MakeError(26, 7, KHAX_MODULE, 1009))}
          ELSE {IF extra = NULL32
                  THEN Out([h1 EXCEPT !.m_extraLinear = extra], k1,
                           MakeError(26, 3, KHAX_MODULE, 1011))
                ELSE Out([h1 EXCEPT !.m_extraLinear = extra, !.m_nextStep = @ + 1],
                         [k1 EXCEPT !.held = @ \cup {"extra"},
                                    !.acquired["extra"] = @ + 1], 0)
                : extra \in ExtraAddresses}
      : address \in LinearAddresses}

Step2_AllocateMemory(h, k) ==
  IF h.m_nextStep # 2 THEN {Out(h, k, SeqError)}
  ELSE
    {Out(h, [k EXCEPT !.calls = Append(@, <<"alloc_linear", 6>>)], HostError)}
    \cup UNION {
      LET k1 == [k EXCEPT !.calls = Append(@, <<"alloc_linear", 6>>),
                          !.base = address, !.alloc = Pages]
          h1 == [h EXCEPT !.m_overwriteMemory = address,
                          !.m_overwriteAllocated = (2 ^ 6) - 1]
      IN  IF Misaligned(address)
            THEN {Out(h1, k1, MakeError(26, 7, KHAX_MODULE, 1009))}
          ELSE {IF extra = NULL32
                  THEN Out([h1 EXCEPT !.m_extraLinear = extra], k1,
                           MakeError(26, 3, KHAX_MODULE, 1011))
                ELSE Out([h1 EXCEPT !.m_extraLinear = extra, !.m_nextStep = @ + 1],
                         [k1 EXCEPT !.held = @ \cup {"extra"},
                                    !.acquired["extra"] = @ + 1], 0)
                : extra \in ExtraAddresses}
      : address \in LinearAddresses}

\* What the kernel leaves in the links of the two freed pages: the layout the
\* exploit expects, or one of the ways it can differ.
Layouts == {"expected", "next_wrong", "prev_wrong", "next_null"}

ApplyLayout(k, row, layout) ==
  CASE layout = "expected" -> k
    [] layout = "next_wrong" -> [k EXCEPT !.blk[2].m_next = AfterBlock(row)]
    [] layout = "prev_wrong" -> [k EXCEPT !.blk[4].m_prev = BeforeBlock(row)]
    [] layout = "next_null" -> [k EXCEPT !.blk[2].m_next = NULL32]

\* Variant of Step3_SurroundFree: the bit of page 4 is cleared before the
\* result of its free is looked at.
Step3_ClearsEarly(h, k) ==
  IF h.m_nextStep # 3 THEN {Out(h, k, SeqError)}
  ELSE UNION {
    IF f1[1] # 0 THEN {Out(h, f1[2], f1[1])}
    ELSE LET h1 == [h EXCEPT !.m_overwriteAllocated = ClearBit(ClearBit(@, 2), 4)]
         IN  UNION {
               IF f2[1] # 0 THEN {Out(h1, f2[2], f2[1])}
               ELSE {Out([h1 EXCEPT !.m_nextStep = @ + 1],
                         ApplyLayout(f2[2], VD(h), layout), 0)
                     : layout \in Layouts}
               : f2 \in FreeOutcomes(h1, f1[2], 4)}
    : f1 \in FreeOutcomes(h, k, 2)}

Step3_SurroundFree(h, k) ==
  IF h.m_nextStep # 3 THEN {Out(h, k, SeqError)}
  ELSE UNION {
    IF f1[1] # 0 THEN {Out(h, f1[2], f1[1])}
    ELSE LET h1 == [h EXCEPT !.m_overwriteAllocated = ClearBit(@, 2)]
         IN  UNION {
               IF f2[1] # 0 THEN {Out(h1, f2[2], f2[1])}
               ELSE {Out([h1 EXCEPT !.m_overwriteAllocated = ClearBit(@, 4),
                                    !.m_nextStep = @ + 1],
                         ApplyLayout(f2[2], VD(h), layout), 0)
                     : layout \in Layouts}
               : f2 \in FreeOutcomes(h1, f1[2], 4)}
    : f1 \in FreeOutcomes(h, k, 2)}

\* Variant of Step4_VerifyExpectedLayout: m_nextStep is advanced before the
\* layout is verified.
Step4_AdvancesEarly(h, k) ==
  IF h.m_nextStep # 4 THEN {Out(h, k, SeqError)}
  ELSE UNION {
    LET k1 == [k EXCEPT !.calls = Append(@, <<"gspwn_read", 2>>)]
        h0 == [h EXCEPT !.m_nextStep = @ + 1]
        h1 == IF g1.issued THEN [h0 EXCEPT !.extra = k.blk[2]] ELSE h0
    IN  IF g1.res # 0 THEN {Out(h1, k1, g1.res)}
        ELSE IF h1.extra.m_next #
                ConvertLinearUserVAToKernelVA(VD(h), PageAddr(h.m_overwriteMemory, 4))
          THEN {Out(h1, k1, MakeError(26, 5, KHAX_MODULE, 1014))}
        ELSE UNION {
          LET k2 == [k1 EXCEPT !.calls = Append(@, <<"gspwn_read", 4>>)]
              h2 == IF g2.issued THEN [h1 EXCEPT !.extra = k.blk[4]] ELSE h1
          IN  IF g2.res # 0 THEN {Out(h2, k2, g2.res)}
              ELSE IF h2.extra.m_prev #
                      ConvertLinearUserVAToKernelVA(VD(h), PageAddr(h.m_overwriteMemory, 2))
                THEN {Out(h2, k2, MakeError(26, 5, KHAX_MODULE, 1014))}
              ELSE {Out(h2, k2, 0)}
          : g2 \in GSPwn}
    : g1 \in GSPwn}

Step4_VerifyExpectedLayout(h, k) ==
  IF h.m_nextStep # 4 THEN {Out(h, k, SeqError)}
  ELSE UNION {
    LET k1 == [k EXCEPT !.calls = Append(@, <<"gspwn_read", 2>>)]
        h1 == IF g1.issued THEN [h EXCEPT !.extra = k.blk[2]] ELSE h
    IN  IF g1.res # 0 THEN {Out(h1, k1, g1.res)}
        ELSE IF h1.extra.m_next #
                ConvertLinearUserVAToKernelVA(VD(h), PageAddr(h.m_overwriteMemory, 4))
          THEN {Out(h1, k1, MakeError(26, 5, KHAX_MODULE, 1014))}
        ELSE UNION {
          LET k2 == [k1 EXCEPT !.calls = Append(@, <<"gspwn_read", 4>>)]
              h2 == IF g2.issued THEN [h1 EXCEPT !.extra = k.blk[4]] ELSE h1
          IN  IF g2.res # 0 THEN {Out(h2, k2, g2.res)}
              ELSE IF h2.extra.m_prev #
                      ConvertLinearUserVAToKernelVA(VD(h), PageAddr(h.m_overwriteMemory, 2))
                THEN {Out(h2, k2, MakeError(26, 5, KHAX_MODULE, 1014))}
              ELSE {Out([h2 EXCEPT !.m_nextStep = @ + 1], k2, 0)}
          : g2 \in GSPwn}
    : g1 \in GSPwn}

\* Variant of Step5_CorruptCreateThread: the write-back copy counts as one
\* corruption.
Step5_CountsOne(h, k) ==
  IF h.m_nextStep # 5 THEN {Out(h, k, SeqError)}
  ELSE UNION {
    LET k1 == [k EXCEPT !.calls = Append(@, <<"gspwn_read", 2>>)]
        h1 == IF g1.issued THEN [h EXCEPT !.extra = k.blk[2]] ELSE h
    IN  IF g1.res # 0 THEN {Out(h1, k1, g1.res)}
        ELSE
          LET h2 == [h1 EXCEPT !.extra.m_next =
                                 Sub32(VD(h).m_threadPatchAddress, OffPrev)]
          IN  UNION {
                LET k2 == IF g2.issued
                            THEN [k1 EXCEPT !.calls = Append(@, <<"gspwn_write", 2>>),
                                            !.blk[2] = h2.extra,
                                            !.writeBack = TRUE]
                          ELSE [k1 EXCEPT !.calls = Append(@, <<"gspwn_write", 2>>)]
                IN  IF g2.res # 0 THEN {Out(h2, k2, g2.res)}
                    ELSE
                      LET h3 == [h2 EXCEPT !.m_corrupted = @ + 1]
                      IN  {IF f[1] # 0 THEN Out(h3, f[2], f[1])
                           ELSE Out([h3 EXCEPT !.m_overwriteAllocated = ClearBit(@, 1),
                                               !.m_corrupted = @ + 1,
                                               !.m_nextStep = @ + 1],
                                    f[2], 0)
                           : f \in FreeOutcomes(h3, k2, 1)}
                : g2 \in GSPwn}
    : g1 \in GSPwn}

Step5_CorruptCreateThread(h, k) ==
  IF h.m_nextStep # 5 THEN {Out(h, k, SeqError)}
  ELSE UNION {
    LET k1 == [k EXCEPT !.calls = Append(@, <<"gspwn_read", 2>>)]
        h1 == IF g1.issued THEN [h EXCEPT !.extra = k.blk[2]] ELSE h
    IN  IF g1.res # 0 THEN {Out(h1, k1, g1.res)}
        ELSE
          LET h2 == [h1 EXCEPT !.extra.m_next =
                                 Sub32(VD(h).m_threadPatchAddress, OffPrev)]
          IN  UNION {
                LET k2 == IF g2.issued
                            THEN [k1 EXCEPT !.calls = Append(@, <<"gspwn_write", 2>>),
                                            !.blk[2] = h2.extra,
                                            !.writeBack = TRUE]
                          ELSE [k1 EXCEPT !.calls = Append(@, <<"gspwn_write", 2>>)]
                IN  IF g2.res # 0 THEN {Out(h2, k2, g2.res)}
                    ELSE
                      LET h3 == [h2 EXCEPT !.m_corrupted = @ + 2]
                      IN  {IF f[1] # 0 THEN Out(h3, f[2], f[1])
                           ELSE Out([h3 EXCEPT !.m_overwriteAllocated = ClearBit(@, 1),
                                               !.m_corrupted = @ + 1,
                                               !.m_nextStep = @ + 1],
                                    f[2], 0)
                           : f \in FreeOutcomes(h3, k2, 1)}
                : g2 \in GSPwn}
    : g1 \in GSPwn}

STEP6_SUCCESS_RESULT == ToResult(W(\H1337, \HC0DE))

\* A function of the kernel-mode body has run: the kernel's log keeps its
\* name and the value of m_corrupted it leaves.
KMode(k, name, h) == [k EXCEPT !.kmode = Append(@, <<name, h.m_corrupted>>)]

\* Variant of Step6c_UndoCreateThreadPatch: the counter is lowered by two.
Step6c_DecrementsTwice(h, k) ==
  LET h1 == [h EXCEPT !.m_corrupted = @ - 2]
  IN  <<h1, KMode(KernelWrite(k, VD(h), VD(h).m_threadPatchAddress,
                              m_threadPatchOriginalCode), "Step6c", h1)>>

\* The kernel-mode body returns a pair <<object, kernel>>, then a result.
Step6c_UndoCreateThreadPatch(h, k) ==
  LET h1 == [h EXCEPT !.m_corrupted = @ - 1]
  IN  <<h1, KMode(KernelWrite(k, VD(h), VD(h).m_threadPatchAddress,
                              m_threadPatchOriginalCode), "Step6c", h1)>>

\* Variant of Step6d_FixHeapCorruption: the counter is lowered by one only.
Step6d_DecrementsOnce(h, k) ==
  LET left == ConvertLinearUserVAToKernelVA(VD(h), PageAddr(h.m_overwriteMemory, 1))
      rightNext == ConvertLinearUserVAToKernelVA(VD(h), PageAddr(h.m_overwriteMemory, 4))
      k1 == KernelWrite(k, VD(h), Add32(left, OffNext), rightNext)
      k2 == KernelWrite(k1, VD(h), Add32(rightNext, OffPrev), left)
      h1 == [h EXCEPT !.m_corrupted = @ - 1]
  IN  <<h1, KMode(k2, "Step6d", h1)>>

\* Variant of Step6d_FixHeapCorruption: the store to rightNext->m_prev is
\* missing.
Step6d_SkipsBackLink(h, k) ==
  LET left == ConvertLinearUserVAToKernelVA(VD(h), PageAddr(h.m_overwriteMemory, 1))
      rightNext == ConvertLinearUserVAToKernelVA(VD(h), PageAddr(h.m_overwriteMemory, 4))
      k1 == KernelWrite(k, VD(h), Add32(left, OffNext), rightNext)
      h1 == [h EXCEPT !.m_corrupted = @ - 2]
  IN  <<h1, KMode(k1, "Step6d", h1)>>

Step6d_FixHeapCorruption(h, k) ==
  LET left == ConvertLinearUserVAToKernelVA(VD(h), PageAddr(h.m_overwriteMemory, 1))
      rightNext == ConvertLinearUserVAToKernelVA(VD(h), PageAddr(h.m_overwriteMemory, 4))
      k1 == KernelWrite(k, VD(h), Add32(left, OffNext), rightNext)
      k2 == KernelWrite(k1, VD(h), Add32(rightNext, OffPrev), left)
      h1 == [h EXCEPT !.m_corrupted = @ - 2]
  IN  <<h1, KMode(k2, "Step6d", h1)>>

\* Variant of s_fullAccessACL: every bit is set.
s_fullAccessACL_AllBits ==
  <<255, 255, 255, 255, 255, 255, 255, 255, 255, 255, 255, 255, 255, 255, 255, 255>>

\* Everything, except nonexistent services 00, 7E or 7F.
s_fullAccessACL ==
  <<254, 255, 255, 255, 255, 255, 255, 255, 255, 255, 255, 255, 255, 255, 255, 63>>

Step6e_GrantSVCAccess(h, k) ==
  <<[h EXCEPT !.m_oldACL = k.acl],
    KMode([k EXCEPT !.acl = s_fullAccessACL], "Step6e", h)>>

\* Variant of Step6b_SVCEntryPoint: the grant comes first.
Step6b_GrantFirst(h, k) ==
  LET e == Step6e_GrantSVCAccess(h, k)
      c == Step6c_UndoCreateThreadPatch(e[1], e[2])
      d == Step6d_FixHeapCorruption(c[1], c[2])
  IN  Out(d[1], [d[2] EXCEPT !.repaired = TRUE], STEP6_SUCCESS_RESULT)

\* Each of the three functions returns 0, so none of the early returns is
\* taken.
Step6b_SVCEntryPoint(h, k) ==
  LET c == Step6c_UndoCreateThreadPatch(h, k)
      d == Step6d_FixHeapCorruption(c[1], c[2])
      e == Step6e_GrantSVCAccess(d[1], d[2])
  IN  Out(e[1], [e[2] EXCEPT !.repaired = TRUE], STEP6_SUCCESS_RESULT)

\* svcCreateThread with the engineered arguments: when the instruction pair
\* at m_threadPatchAddress is overwritten, control reaches the thunk in r0 and
\* the system call returns what the thunk returns; the request itself is
\* invalid, so otherwise the system call fails (or reports 0).  The kernel
\* keeps what the system call returned in svcRet.
svcCreateThread(h, k) ==
  LET k1 == [k EXCEPT !.calls = Append(@, <<"svcCreateThread", 0>>)]
      returned(o) == [o EXCEPT !.kern.svcRet = <<o.res>>]
  IN  {returned(Out(h, k1, r)) : r \in {0, HostError}}
      \cup (IF k.patchWord # m_threadPatchOriginalCode /\ s_instance = "this"
              THEN {returned(Step6b_SVCEntryPoint(h, k1))}
              ELSE {})

\* Variant of Step6_ExecuteSVCCode: the m_nextStep test is missing.
Step6_Unguarded(h, k) ==
  {IF o.res # STEP6_SUCCESS_RESULT
     THEN Out(o.hax, o.kern,
              IF o.res = 0 THEN MakeError(27, 11, KHAX_MODULE, 1023) ELSE o.res)
   ELSE Out([o.hax EXCEPT !.m_nextStep = @ + 1], o.kern, 0)
   : o \in svcCreateThread(h, k)}

\* Variant of Step6_ExecuteSVCCode: a system call result of 0 is taken for
\* success.
Step6_AcceptsZero(h, k) ==
  IF h.m_nextStep # 6 THEN {Out(h, k, SeqError)}
  ELSE {IF o.res # STEP6_SUCCESS_RESULT /\ o.res # 0
          THEN Out(o.hax, o.kern, o.res)
        ELSE Out([o.hax EXCEPT !.m_nextStep = @ + 1], o.kern, 0)
        : o \in svcCreateThread(h, k)}

Step6_ExecuteSVCCode(h, k) ==
  IF h.m_nextStep # 6 THEN {Out(h, k, SeqError)}
  ELSE {IF o.res # STEP6_SUCCESS_RESULT
          THEN Out(o.hax, o.kern,
                   IF o.res = 0 THEN MakeError(27, 11, KHAX_MODULE, 1023) ELSE o.res)
        ELSE Out([o.hax EXCEPT !.m_nextStep = @ + 1], o.kern, 0)
        : o \in svcCreateThread(h, k)}

\* svcGetProcessId(&pid, handle): <<result, pid read>>; on failure nothing is
\* stored through the pointer.
svcGetProcessId(k) == {<<0, k.pid>>, <<HostError, k.pid>>}

\* How the host answers the calls of the service-access step: the results of
\* the three svcGetProcessId calls, and whether the stores made through
\* svcBackdoor reach the process id the kernel reports.
HostScripts == [lands : BOOLEAN, q1 : {0, HostError}, q2 : {0, HostError},
                q3 : {0, HostError}]

\* The kernel after the query g: the host call log keeps the process id read,
\* or the error.
Asked(k, g) ==
  [k EXCEPT !.calls = Append(@, <<"svcGetProcessId", IF g[1] = 0 THEN g[2] ELSE g[1]>>)]

\* Whether the thread's ACL lets it call svcBackdoor (system call 0x7B).
MayCallBackdoor(k) == (k.acl[16] \div 8) % 2 = 1

\* Step7a_PatchPID / Step7b_UnpatchPID run by svcBackdoor: the store to the
\* m_processID field that m_makeKProcessPointers locates.  `lands' tells
\* whether that field is where the kernel keeps the process id.
Step7a_PatchPID(h, k, lands) ==
  LET k1 == [k EXCEPT !.calls = Append(@, <<"PatchPID", 0>>)]
  IN  IF MayCallBackdoor(k) /\ s_instance = "this" /\ lands
        THEN [k1 EXCEPT !.pid = 0] ELSE k1

\* Variant of Step7b_UnpatchPID: the saved ACL is written back as well.
Step7b_RestoresACL(h, k, lands) ==
  LET k1 == [k EXCEPT !.calls = Append(@, <<"UnpatchPID", h.m_originalPID>>)]
  IN  IF MayCallBackdoor(k) /\ s_instance = "this" /\ lands
        THEN [k1 EXCEPT !.pid = h.m_originalPID, !.acl = h.m_oldACL] ELSE k1

Step7b_UnpatchPID(h, k, lands) ==
  LET k1 == [k EXCEPT !.calls = Append(@, <<"UnpatchPID", h.m_originalPID>>)]
  IN  IF MayCallBackdoor(k) /\ s_instance = "this" /\ lands
        THEN [k1 EXCEPT !.pid = h.m_originalPID] ELSE k1

\* srvExit(); srvInit(): the service manager registers the process under the
\* process id it reads at that moment.
srvReinit(k) ==
  [k EXCEPT !.calls = Append(Append(@, <<"srvExit", 0>>), <<"srvInit", k.pid>>),
            !.srvPid = k.pid]

\* Variant of Step7_GrantServiceAccess: m_originalPID is saved after the
\* process id was patched.
Step7_SavesAfterPatch(h, k) ==
  IF h.m_nextStep # 7 THEN {Out(h, k, SeqError)}
  ELSE UNION {
    LET k1 == Step7a_PatchPID(h, k, lands)
    IN  UNION {
      IF g1[1] # 0 THEN {Out(h, k1, g1[1])}
      ELSE
        LET h1 == [h EXCEPT !.m_originalPID = g1[2]]
        IN  IF g1[2] # 0 THEN {Out(h1, k1, MakeError(27, 11, KHAX_MODULE, 1023))}
            ELSE
              LET k2 == Step7b_UnpatchPID(h1, srvReinit(k1), lands)
              IN  {IF g3[1] # 0 THEN Out(h1, k2, g3[1])
                   ELSE IF g3[2] # h1.m_originalPID
                     THEN Out(h1, k2, MakeError(27, 11, KHAX_MODULE, 1023))
                   ELSE Out(h1, k2, 0)
                   : g3 \in svcGetProcessId(k2)}
      : g1 \in svcGetProcessId(k1)}
    : lands \in BOOLEAN}

\* Variant of Step7_GrantServiceAccess: the service connection is set up
\* again after the process id was restored.
Step7_ReinitAfterRestore(h, k) ==
  IF h.m_nextStep # 7 THEN {Out(h, k, SeqError)}
  ELSE UNION {
    LET ka == Asked(k, g1)
    IN  IF g1[1] # 0 THEN {Out(h, ka, g1[1])}
        ELSE
          LET h1 == [h EXCEPT !.m_originalPID = g1[2]]
          IN  UNION {
            LET k1 == Step7a_PatchPID(h1, ka, lands)
            IN  UNION {
              LET kb == Asked(k1, g2)
              IN  IF g2[1] # 0
                    THEN {Out(h1, Step7b_UnpatchPID(h1, kb, lands), g2[1])}
                  ELSE IF g2[2] # 0
                    THEN {Out(h1, kb, MakeError(27, 11, KHAX_MODULE, 1023))}
                  ELSE
                    LET k2 == srvReinit(Step7b_UnpatchPID(h1, kb, lands))
                    IN  {LET kc == Asked(k2, g3)
                         IN  IF g3[1] # 0 THEN Out(h1, kc, g3[1])
                             ELSE IF g3[2] # h1.m_originalPID
                               THEN Out(h1, kc, MakeError(27, 11, KHAX_MODULE, 1023))
                             ELSE Out(h1, kc, 0)
                         : g3 \in svcGetProcessId(k2)}
              : g2 \in svcGetProcessId(k1)}
            : lands \in BOOLEAN}
    : g1 \in svcGetProcessId(k)}

\* Step7_GrantServiceAccess when the host answers as `sc' says.
Step7_GrantServiceAccess_On(h, k, sc) ==
  IF h.m_nextStep # 7 THEN Out(h, k, SeqError)
  ELSE
    LET g1 == <<sc.q1, k.pid>>
        ka == Asked(k, g1)
    IN  IF g1[1] # 0 THEN Out(h, ka, g1[1])
        ELSE
          LET h1 == [h EXCEPT !.m_originalPID = g1[2]]
              k1 == Step7a_PatchPID(h1, ka, sc.lands)
              g2 == <<sc.q2, k1.pid>>
              kb == Asked(k1, g2)
          IN  IF g2[1] # 0 THEN Out(h1, Step7b_UnpatchPID(h1, kb, sc.lands), g2[1])
              ELSE IF g2[2] # 0 THEN Out(h1, kb, MakeError(27, 11, KHAX_MODULE, 1023))
              ELSE
                LET k2 == Step7b_UnpatchPID(h1, srvReinit(kb), sc.lands)
                    g3 == <<sc.q3, k2.pid>>
                    kc == Asked(k2, g3)
                IN  IF g3[1] # 0 THEN Out(h1, kc, g3[1])
                    ELSE IF g3[2] # h1.m_originalPID
                      THEN Out(h1, kc, MakeError(27, 11, KHAX_MODULE, 1023))
                    ELSE Out(h1, kc, 0)

Step7_GrantServiceAccess(h, k) ==
  {Step7_GrantServiceAccess_On(h, k, sc) : sc \in HostScripts}

\* Variant of DtorFreeLoop: every page is freed, whatever its bit says.
RECURSIVE DtorFreeLoop_AllPages(_, _, _, _)
DtorFreeLoop_AllPages(h, k, x, issued) ==
  IF x > 5 THEN {<<k, issued>>}
  ELSE UNION {DtorFreeLoop_AllPages(h, f[2], x + 1, Append(issued, x))
              : f \in FreeOutcomes(h, k, x)}

\* The loop of ~MemChunkHax over m_pages[x .. 5]: a free is issued for every
\* page whose bit is set, and its result is only printed.  Gives the set of
\* <<kernel afterwards, pages a free was issued for>>.
RECURSIVE DtorFreeLoop(_, _, _, _)
DtorFreeLoop(h, k, x, issued) ==
  IF x > 5 THEN {<<k, issued>>}
  ELSE IF Bit(h.m_overwriteAllocated, x)
    THEN UNION {DtorFreeLoop(h, f[2], x + 1, Append(issued, x))
                : f \in FreeOutcomes(h, k, x)}
  ELSE DtorFreeLoop(h, k, x + 1, issued)

\* Variant of DtorFreezes: the destructor tolerates two broken invariants.
DtorFreezes_AboveTwo(h) == h.m_corrupted > 2

\* ~MemChunkHax is about to freeze.
DtorFreezes(h) == h.m_corrupted > 0

-----------------------------------------------------------------------------
(* Class MemChunkHax2                                                      *)

PAGE_SIZE == W(0, 4096)

\* __ctru_heap + __ctru_heap_size: the end of the application heap.
HeapEnd == W(\H0900, 0)

\* A kernel object handle and the address svcCreateEventKAddr reports.
EventHandle == W(0, \H8001)
EventKAddr(row) == Add32(row.m_slabHeapVirtualAddress, W(0, \H0A48))

\* m_mapResult and m_kernelResult start as -1; a Thread handle is 0 or this.
DelayThread == "delayThread"

\* MemChunkHax2::MemChunkHax2(versionData).  m_oldACL and m_originalPID are
\* not initialised by the constructor.
NewMemChunkHax2(vd, acl0, pid0) ==
  [m_versionData |-> vd, m_nextStep |-> 1, m_mapAddr |-> HeapEnd,
   m_mapSize |-> Add32(PAGE_SIZE, PAGE_SIZE), m_mapResult |-> -1,
   m_isolatedPage |-> NULL32, m_isolatingPage |-> NULL32,
   m_kObjHandle |-> NULL32, m_kObjAddr |-> NULL32, m_backup |-> FALSE,
   m_delayThread |-> "NULL", m_oldVtable |-> "NULL", m_kernelResult |-> -1,
   m_oldACL |-> acl0, m_originalPID |-> pid0]

RawMemChunkHax2(acl0, pid0) ==
  [NewMemChunkHax2(nullptr, acl0, pid0) EXCEPT !.m_nextStep = 0]

R_FAILED(r) == r < 0

\* A resource is acquired or released: the kernel counts both.
Acquire(k, what) == [k EXCEPT !.held = @ \cup {what}, !.acquired[what] = @ + 1]
Release(k, what) == [k EXCEPT !.held = @ \ {what}, !.released[what] = @ + 1]

MemChunkHax2_Step1_Initialize(h, k) ==
  IF h.m_nextStep # 1 THEN {Out(h, k, SeqError)}
  ELSE LET k1 == [k EXCEPT !.aptSessions = @ + 1,
                           !.calls = Append(@, <<"aptOpenSession", 0>>)]
       IN  {Out(h, [k1 EXCEPT !.calls = Append(@, <<"APT_SetAppCpuTimeLimit", 30>>)],
                HostError),
            Out([h EXCEPT !.m_nextStep = @ + 1],
                [k1 EXCEPT !.aptSessions = @ - 1, !.cpuTimeLimit = 30,
                           !.calls = Append(Append(@, <<"APT_SetAppCpuTimeLimit", 30>>),
                                            <<"aptCloseSession", 0>>)],
                0)}

\* svcControlMemory(&out, addr, 0, PAGE_SIZE, MEMOP_ALLOC, ...) of the page
\* named `what': <<result, out, kernel>>.  The system call stub stores r1
\* through `out' whatever the result, so after a failure `out' holds its old
\* value or whatever the register held (here: the requested address).
AllocOutcomes(k, what, addr, out) ==
  {<<HostError, o, [k EXCEPT !.calls = Append(@, <<"alloc", what>>)]>> : o \in {out, addr}}
  \cup {<<0, addr, Acquire([k EXCEPT !.calls = Append(@, <<"alloc", what>>)], what)>>}

\* svcControlMemory(&out, addr, 0, size, MEMOP_FREE, ...): <<result, kernel>>.
\* The kernel frees memory that is allocated, or refuses and changes nothing;
\* memory that is not allocated cannot be freed.
Free2Outcomes(k, what) ==
  LET k1 == [k EXCEPT !.calls = Append(@, <<"free", what>>)]
  IN  IF what \notin k.held
        THEN {<<HostError, [k1 EXCEPT !.doubleFrees = @ + 1]>>}
      ELSE {<<0, Release(k1, what)>>}
           \cup (IF k.freeFailures < MaxFreeFailures
                   THEN {<<HostError, [k1 EXCEPT !.freeFailures = @ + 1]>>}
                   ELSE {})

\* Variant of MemChunkHax2_Step2_IsolatePage: m_isolatedPage is cleared before
\* the result of the free is tested.
MemChunkHax2_Step2_ForgetsEarly(h, k) ==
  IF h.m_nextStep # 2 THEN {Out(h, k, SeqError)}
  ELSE UNION {
    LET h1 == [h EXCEPT !.m_isolatedPage = a1[2]]
    IN  IF R_FAILED(a1[1]) THEN {Out(h1, a1[3], a1[1])}
        ELSE UNION {
          LET h2 == [h1 EXCEPT !.m_isolatingPage = a2[2]]
          IN  IF R_FAILED(a2[1]) THEN {Out(h2, a2[3], a2[1])}
              ELSE {IF R_FAILED(f[1])
                      THEN Out([h2 EXCEPT !.m_isolatedPage = NULL32], f[2], f[1])
                    ELSE Out([h2 EXCEPT !.m_isolatedPage = NULL32,
                                        !.m_nextStep = @ + 1], f[2], 0)
                    : f \in Free2Outcomes(a2[3], "isolated")}
          : a2 \in AllocOutcomes(a1[3], "isolating",
                                 Add32(h1.m_isolatedPage, PAGE_SIZE),
                                 h1.m_isolatingPage)}
    : a1 \in AllocOutcomes(k, "isolated", Add32(h.m_mapAddr, h.m_mapSize),
                           h.m_isolatedPage)}

MemChunkHax2_Step2_IsolatePage(h, k) ==
  IF h.m_nextStep # 2 THEN {Out(h, k, SeqError)}
  ELSE UNION {
    LET h1 == [h EXCEPT !.m_isolatedPage = a1[2]]
    IN  IF R_FAILED(a1[1]) THEN {Out(h1, a1[3], a1[1])}
        ELSE UNION {
          LET h2 == [h1 EXCEPT !.m_isolatingPage = a2[2]]
          IN  IF R_FAILED(a2[1]) THEN {Out(h2, a2[3], a2[1])}
              ELSE {IF R_FAILED(f[1]) THEN Out(h2, f[2], f[1])
                    ELSE Out([h2 EXCEPT !.m_isolatedPage = NULL32,
                                        !.m_nextStep = @ + 1], f[2], 0)
                    : f \in Free2Outcomes(a2[3], "isolated")}
          : a2 \in AllocOutcomes(a1[3], "isolating",
                                 Add32(h1.m_isolatedPage, PAGE_SIZE),
                                 h1.m_isolatingPage)}
    : a1 \in AllocOutcomes(k, "isolated", Add32(h.m_mapAddr, h.m_mapSize),
                           h.m_isolatedPage)}

\* Step3_OverwriteVtable stays in one of its polling loops for ever.
Spins(h, k) == [Out(h, k, 0) EXCEPT !.returns = FALSE]

\* A handle value that names no object.
GarbageHandle == W(0, \HDEAD)

\* The s_fullAccessACL of MemChunkHax2::Step3e_GrantSVCAccess.
MemChunkHax2_s_fullAccessACL ==
  <<254, 255, 255, 255, 255, 255, 255, 255, 255, 255, 255, 255, 255, 255, 255, 63>>

MemChunkHax2_Step3e_GrantSVCAccess(h, k) ==
  <<[h EXCEPT !.m_oldACL = k.acl], [k EXCEPT !.acl = MemChunkHax2_s_fullAccessACL]>>

\* Step3d_SVCEntryPoint: Step3e always returns 0.
MemChunkHax2_Step3d_SVCEntryPoint(h, k) ==
  LET e == MemChunkHax2_Step3e_GrantSVCAccess(
             h, [k EXCEPT !.calls = Append(@, <<"Step3d_SVCEntryPoint", 0>>)])
  IN  <<[e[1] EXCEPT !.m_kernelResult = 0], e[2]>>

\* Step3c_SVCEntryPointThunk: the original destructor, then the payload.
\* vtableAtReturn keeps what the object's vtable pointer holds when the thunk
\* returns to the kernel.
MemChunkHax2_Step3c_SVCEntryPointThunk(h, k) ==
  LET d == MemChunkHax2_Step3d_SVCEntryPoint(
             h, [k EXCEPT !.calls = Append(@, <<"oldVtable", 4>>)])
  IN  <<d[1], [d[2] EXCEPT !.vtableAtReturn = d[2].vtablePtr]>>

\* Index of the destructor in the KEvent vtable.
KEVENT_DESTRUCTOR == 4

\* ForwardFunc##i: s_instance->m_oldVtable[i]().
ForwardFunc(i, h, k) == <<h, [k EXCEPT !.calls = Append(@, <<"oldVtable", i>>)]>>

\* Variant of m_vtable: slot 4 holds ForwardFunc4.
m_vtable_AllForward(i, h, k) == ForwardFunc(i, h, k)

\* m_vtable[i](): what the kernel runs when it calls slot i through the
\* swapped pointer.
m_vtable(i, h, k) ==
  IF i = KEVENT_DESTRUCTOR THEN MemChunkHax2_Step3c_SVCEntryPointThunk(h, k)
  ELSE ForwardFunc(i, h, k)

\* svcCloseHandle(m_kObjHandle) with the vtable pointer swapped: the kernel
\* destroys the event through the pointer at the object.  `took' tells whether
\* the page mapped at m_mapAddr + PAGE_SIZE is the page holding the object, so
\* that the swap reached the kernel's pointer.
CloseHijackedHandle(h, k, took) ==
  LET k1 == Release([k EXCEPT !.calls = Append(@, <<"svcCloseHandle", 0>>)], "event")
  IN  IF took /\ s_instance2 = "this"
        THEN m_vtable(KEVENT_DESTRUCTOR, h, [k1 EXCEPT !.payloadRan = TRUE])
        ELSE <<h, k1>>

\* Variant of Step3_Swap: m_kernelResult is not tested after the close.
Step3_Swap_IgnoresKernelResult(h1, k1, took) ==
  LET h2 == [h1 EXCEPT !.m_oldVtable = IF took THEN k1.vtablePtr ELSE "garbage"]
      c == CloseHijackedHandle(
             h2, [k1 EXCEPT !.vtablePtr = IF took THEN "m_vtable" ELSE @], took)
      h3 == [c[1] EXCEPT !.m_kObjHandle = NULL32]
      k3 == [c[2] EXCEPT !.vtablePtr = IF took THEN h3.m_oldVtable ELSE @]
  IN  Out([h3 EXCEPT !.m_nextStep = @ + 1], k3, 0)

\* The end of Step3_OverwriteVtable, once m_mapResult is 0: the backup is
\* copied back, the vtable pointer swapped, the handle closed and the pointer
\* put back.  `took' tells whether the second mapped page is the page that
\* holds the event object.
Step3_Swap(h1, k1, took) ==
  LET h2 == [h1 EXCEPT !.m_oldVtable = IF took THEN k1.vtablePtr ELSE "garbage"]
      c == CloseHijackedHandle(
             h2, [k1 EXCEPT !.vtablePtr = IF took THEN "m_vtable" ELSE @], took)
      h3 == [c[1] EXCEPT !.m_kObjHandle = NULL32]
      k3 == [c[2] EXCEPT !.vtablePtr = IF took THEN h3.m_oldVtable ELSE @]
  IN  IF h3.m_kernelResult # 0 THEN Out(h3, k3, h3.m_kernelResult)
      ELSE Out([h3 EXCEPT !.m_nextStep = @ + 1], k3, 0)

\* The part of Step3_OverwriteVtable after both threads exist.  The allocate
\* thread's svcControlMemory returns `mr'; `timing' is how the race went.
Step3_Race(h, k, mr, timing, took) ==
  LET k1 == IF mr = 0 THEN Acquire([k EXCEPT !.calls = Append(@, <<"alloc", "map">>)], "map")
            ELSE [k EXCEPT !.calls = Append(@, <<"alloc", "map">>)]
      h1 == [h EXCEPT !.m_mapResult = mr]
  IN  CASE timing = "never_mapped" -> Spins(h1, k1)
        [] timing = "map_done_early" -> Out(h1, k1, MakeError(26, 3, KHAX_MODULE, 1003))
        [] timing = "map_in_flight" ->
             IF R_FAILED(mr) THEN Out(h1, k1, mr)
             ELSE Step3_Swap(h1, k1, took)

\* The ways the race can go for a given svcControlMemory result: the polled
\* pages never become mapped (only when the mapping fails), the mapping is
\* over before the backup is taken, or it is still in flight then.
Timings(mr) ==
  IF mr = 0 THEN {"map_done_early", "map_in_flight"}
  ELSE {"never_mapped", "map_done_early", "map_in_flight"}

\* Step3_OverwriteVtable up to the creation of both threads, when nothing
\* fails on the way: <<object, kernel>>.
Step3_ThreadsCreated(h, k) ==
  LET k1 == Acquire([k EXCEPT !.calls = Append(@, <<"svcCreateEvent", 0>>)], "event")
      k2 == Acquire(k1, "backup")
      k3 == [k2 EXCEPT !.calls = Append(@, <<"threadCreate", "delay">>)]
  IN  <<[h EXCEPT !.m_kObjHandle = EventHandle, !.m_kObjAddr = EventKAddr(VD(h)),
                  !.m_backup = TRUE, !.m_delayThread = DelayThread],
        [k3 EXCEPT !.calls = Append(@, <<"threadCreate", "allocate">>),
                   !.race.delay = "running", !.race.allocate = "running"]>>

MemChunkHax2_Step3_OverwriteVtable(h, k) ==
  IF h.m_nextStep # 3 THEN {Out(h, k, SeqError)}
  ELSE
    LET kc == [k EXCEPT !.calls = Append(@, <<"svcCreateEvent", 0>>)]
        h1 == [h EXCEPT !.m_kObjHandle = EventHandle, !.m_kObjAddr = EventKAddr(VD(h))]
        k1 == Acquire(kc, "event")
        h2 == [h1 EXCEPT !.m_backup = TRUE]
        k2 == Acquire(k1, "backup")
        h3 == [h2 EXCEPT !.m_delayThread = DelayThread]
        k3 == [k2 EXCEPT !.calls = Append(@, <<"threadCreate", "delay">>)]
        k4 == [k3 EXCEPT !.calls = Append(@, <<"threadCreate", "allocate">>)]
    IN  {Out([h EXCEPT !.m_kObjHandle = g], kc, HostError) : g \in {NULL32, GarbageHandle}}
        \cup {Out(h1, k1, MakeError(26, 3, KHAX_MODULE, 1011)),
              Out(h2, k2, MakeError(26, 3, KHAX_MODULE, 1011)),
              Out(h3, k3, MakeError(26, 3, KHAX_MODULE, 1011))}
        \cup UNION {{Step3_Race(h3, k4, mr, timing, took)
                      : timing \in Timings(mr), took \in BOOLEAN}
                     : mr \in {0, HostError}}

MemChunkHax2_Step4a_PatchPID(h, k, lands) ==
  LET k1 == [k EXCEPT !.calls = Append(@, <<"PatchPID", 0>>)]
  IN  IF MayCallBackdoor(k) /\ s_instance2 = "this" /\ lands
        THEN [k1 EXCEPT !.pid = 0] ELSE k1

MemChunkHax2_Step4b_UnpatchPID(h, k, lands) ==
  LET k1 == [k EXCEPT !.calls = Append(@, <<"UnpatchPID", h.m_originalPID>>)]
  IN  IF MayCallBackdoor(k) /\ s_instance2 = "this" /\ lands
        THEN [k1 EXCEPT !.pid = h.m_originalPID] ELSE k1

\* Variant of MemChunkHax2_Step4_GrantServiceAccess_On: no restore after a
\* failed second query.
MemChunkHax2_Step4_NoRestoreOnFailure(h, k, sc) ==
  IF h.m_nextStep # 4 THEN Out(h, k, SeqError)
  ELSE
    LET g1 == <<sc.q1, k.pid>>
        ka == Asked(k, g1)
    IN  IF g1[1] # 0 THEN Out(h, ka, g1[1])
        ELSE
          LET h1 == [h EXCEPT !.m_originalPID = g1[2]]
              k1 == MemChunkHax2_Step4a_PatchPID(h1, ka, sc.lands)
              g2 == <<sc.q2, k1.pid>>
              kb == Asked(k1, g2)
          IN  IF g2[1] # 0 THEN Out(h1, kb, g2[1])
              ELSE IF g2[2] # 0 THEN Out(h1, kb, MakeError(27, 11, KHAX_MODULE, 1023))
              ELSE
                LET k2 == MemChunkHax2_Step4b_UnpatchPID(h1, srvReinit(kb), sc.lands)
                    g3 == <<sc.q3, k2.pid>>
                    kc == Asked(k2, g3)
                IN  IF g3[1] # 0 THEN Out(h1, kc, g3[1])
                    ELSE IF g3[2] # h1.m_originalPID
                      THEN Out(h1, kc, MakeError(27, 11, KHAX_MODULE, 1023))
                    ELSE Out(h1, kc, 0)

\* Step4_GrantServiceAccess when the host answers as `sc' says.
MemChunkHax2_Step4_GrantServiceAccess_On(h, k, sc) ==
  IF h.m_nextStep # 4 THEN Out(h, k, SeqError)
  ELSE
    LET g1 == <<sc.q1, k.pid>>
        ka == Asked(k, g1)
    IN  IF g1[1] # 0 THEN Out(h, ka, g1[1])
        ELSE
          LET h1 == [h EXCEPT !.m_originalPID = g1[2]]
              k1 == MemChunkHax2_Step4a_PatchPID(h1, ka, sc.lands)
              g2 == <<sc.q2, k1.pid>>
              kb == Asked(k1, g2)
          IN  IF g2[1] # 0 THEN Out(h1, MemChunkHax2_Step4b_UnpatchPID(h1, kb, sc.lands), g2[1])
              ELSE IF g2[2] # 0 THEN Out(h1, kb, MakeError(27, 11, KHAX_MODULE, 1023))
              ELSE
                LET k2 == MemChunkHax2_Step4b_UnpatchPID(h1, srvReinit(kb), sc.lands)
                    g3 == <<sc.q3, k2.pid>>
                    kc == Asked(k2, g3)
                IN  IF g3[1] # 0 THEN Out(h1, kc, g3[1])
                    ELSE IF g3[2] # h1.m_originalPID
                      THEN Out(h1, kc, MakeError(27, 11, KHAX_MODULE, 1023))
                    ELSE Out(h1, kc, 0)

MemChunkHax2_Step4_GrantServiceAccess(h, k) ==
  {MemChunkHax2_Step4_GrantServiceAccess_On(h, k, sc) : sc \in HostScripts}

\* One conditional release of ~MemChunkHax2: the set of kernels afterwards
\* (the result of the host call is ignored).
ReleaseIf(cond, ks, what) ==
  IF cond THEN UNION {{f[2] : f \in Free2Outcomes(k, what)} : k \in ks} ELSE ks

\* svcCloseHandle(handle) in the destructor.
CloseHandle(k, handle) ==
  LET k1 == [k EXCEPT !.calls = Append(@, <<"svcCloseHandle", handle>>)]
  IN  IF handle = EventHandle /\ "event" \in k.held THEN Release(k1, "event")
      ELSE [k1 EXCEPT !.badClose = @ + 1]

\* Variant of MemChunkHax2_Destructor: m_mapResult is set to 0 for the delay
\* thread before it is tested for the free of the mapped range.
MemChunkHax2_Destructor_StoresFirst(h, k) ==
  LET h1 == IF h.m_delayThread # "NULL" /\ h.m_mapResult = -1
              THEN [h EXCEPT !.m_mapResult = 0] ELSE h
      ks1 == ReleaseIf(h1.m_mapResult = 0, {k}, "map")
      ks2 == IF h.m_backup THEN {Release(k2, "backup") : k2 \in ks1} ELSE ks1
      ks3 == ReleaseIf(h.m_isolatedPage # NULL32, ks2, "isolated")
      h2 == [h1 EXCEPT !.m_isolatedPage = NULL32]
      ks4 == ReleaseIf(h.m_isolatingPage # NULL32, ks3, "isolating")
      h3 == [h2 EXCEPT !.m_isolatingPage = NULL32]
      ks5 == IF h.m_kObjHandle # NULL32
               THEN {CloseHandle(k5, h.m_kObjHandle) : k5 \in ks4} ELSE ks4
  IN  {<<h3, k6>> : k6 \in ks5}

\* Variant of MemChunkHax2_Destructor: the backup buffer is not freed.
MemChunkHax2_Destructor_KeepsBackup(h, k) ==
  LET ks1 == ReleaseIf(h.m_mapResult = 0, {k}, "map")
      h1 == IF h.m_delayThread # "NULL" /\ h.m_mapResult = -1
              THEN [h EXCEPT !.m_mapResult = 0] ELSE h
      ks3 == ReleaseIf(h.m_isolatedPage # NULL32, ks1, "isolated")
      h2 == [h1 EXCEPT !.m_isolatedPage = NULL32]
      ks4 == ReleaseIf(h.m_isolatingPage # NULL32, ks3, "isolating")
      h3 == [h2 EXCEPT !.m_isolatingPage = NULL32]
      ks5 == IF h.m_kObjHandle # NULL32
               THEN {CloseHandle(k5, h.m_kObjHandle) : k5 \in ks4} ELSE ks4
  IN  {<<h3, k6>> : k6 \in ks5}

\* ~MemChunkHax2, up to the s_instance test: the set of <<object, kernel>>.
MemChunkHax2_Destructor(h, k) ==
  LET ks1 == ReleaseIf(h.m_mapResult = 0, {k}, "map")
      h1 == IF h.m_delayThread # "NULL" /\ h.m_mapResult = -1
              THEN [h EXCEPT !.m_mapResult = 0] ELSE h
      ks2 == IF h.m_backup THEN {Release(k2, "backup") : k2 \in ks1} ELSE ks1
      ks3 == ReleaseIf(h.m_isolatedPage # NULL32, ks2, "isolated")
      h2 == [h1 EXCEPT !.m_isolatedPage = NULL32]
      ks4 == ReleaseIf(h.m_isolatingPage # NULL32, ks3, "isolating")
      h3 == [h2 EXCEPT !.m_isolatingPage = NULL32]
      ks5 == IF h.m_kObjHandle # NULL32
               THEN {CloseHandle(k5, h.m_kObjHandle) : k5 \in ks4} ELSE ks4
  IN  {<<h3, k6>> : k6 \in ks5}

-----------------------------------------------------------------------------
(* khaxInit                                                                *)

\* Variant of Dispatch: the first threshold is 2.44.6.
Dispatch_Lower(row) ==
  IF row.m_kernelVersion <= SYSTEM_VERSION(2, 44, 6) THEN "legacy"
  ELSE IF row.m_kernelVersion <= SYSTEM_VERSION(2, 50, 9) THEN "vtable"
  ELSE "none"

\* The branch of khaxInit a table row takes.
Dispatch(row) ==
  IF row.m_kernelVersion <= SYSTEM_VERSION(2, 46, 0) THEN "legacy"
  ELSE IF row.m_kernelVersion <= SYSTEM_VERSION(2, 50, 9) THEN "vtable"
  ELSE "none"

\* Lookup and construction of the hack object.
KhaxInit_Begin ==
  /\ pc = "start"
  /\ versionData' = GetForCurrentSystem(kernelVersion, apt)
  /\ IF versionData' = nullptr
       THEN /\ ret' = Returned(UnknownVersionError)
            /\ pc' = "done"
            /\ UNCHANGED <<machine, hax, s_instance, hax2, s_instance2>>
     ELSE /\ machine' = Dispatch(s_versionTable[versionData'])
          /\ CASE machine' = "legacy" ->
                    /\ hax' = NewMemChunkHax(versionData', hax.m_oldACL, hax.m_originalPID)
                    /\ s_instance' = "this"
                    /\ pc' = "L1"
                    /\ UNCHANGED <<hax2, s_instance2, ret>>
               [] machine' = "vtable" ->
                    /\ hax2' = NewMemChunkHax2(versionData', hax2.m_oldACL,
                                               hax2.m_originalPID)
                    /\ s_instance2' = "this"
                    /\ pc' = "V1"
                    /\ UNCHANGED <<hax, s_instance, ret>>
               [] OTHER ->
                    /\ ret' = Returned(0)
                    /\ pc' = "done"
                    /\ UNCHANGED <<hax, s_instance, hax2, s_instance2>>
  /\ UNCHANGED <<kernelVersion, apt, kern, res, steps, dtorFreed>>

\* Variant of LegacyStep: the result of the step is not tested.
LegacyStep_NoStop(here, outcomes, next) ==
  /\ pc = here
  /\ \E o \in outcomes :
       /\ hax' = o.hax
       /\ kern' = o.kern
       /\ res' = o.res
       /\ steps' = Append(steps, <<here, o.res>>)
       /\ pc' = next
  /\ UNCHANGED <<kernelVersion, apt, versionData, machine, s_instance, hax2,
                 s_instance2, dtorFreed, ret>>

\* khaxInit calls a step of MemChunkHax: on a non-zero result it returns it
\* (the object is destroyed on the way out), otherwise it goes on.
LegacyStep(here, outcomes, next) ==
  /\ pc = here
  /\ \E o \in outcomes :
       /\ hax' = o.hax
       /\ kern' = o.kern
       /\ res' = o.res
       /\ steps' = Append(steps, <<here, o.res>>)
       /\ pc' = IF o.res = 0 THEN next ELSE "dtor"
  /\ UNCHANGED <<kernelVersion, apt, versionData, machine, s_instance, hax2,
                 s_instance2, dtorFreed, ret>>

L1 == LegacyStep("L1", Step1_Initialize(hax, kern), "L2")
L2 == LegacyStep("L2", Step2_AllocateMemory(hax, kern), "L3")
L3 == LegacyStep("L3", Step3_SurroundFree(hax, kern), "L4")
L4 == LegacyStep("L4", Step4_VerifyExpectedLayout(hax, kern), "L5")
L5 == LegacyStep("L5", Step5_CorruptCreateThread(hax, kern), "L6")
L6 == LegacyStep("L6", Step6_ExecuteSVCCode(hax, kern), "L7")
L7 == LegacyStep("L7", Step7_GrantServiceAccess(hax, kern), "dtor")

\* ~MemChunkHax with m_corrupted > 0: for (;;) svcSleepThread(...).
Dtor_Freeze ==
  /\ pc \in {"dtor", "frozen"}
  /\ DtorFreezes(hax)
  /\ pc' = "frozen"
  /\ UNCHANGED <<kernelVersion, apt, versionData, machine, hax, s_instance, hax2,
                 s_instance2, kern, res, steps, dtorFreed, ret>>

\* ~MemChunkHax otherwise, and khaxInit's return of the pending result.
Dtor_Run ==
  /\ pc = "dtor"
  /\ ~DtorFreezes(hax)
  /\ \E d \in (IF hax.m_overwriteMemory # NULL32
                 THEN DtorFreeLoop(hax, kern, 0, <<>>) ELSE {<<kern, <<>> >>}) :
       /\ kern' = IF hax.m_extraLinear # NULL32
                    THEN [d[1] EXCEPT !.held = @ \ {"extra"}, !.released["extra"] = @ + 1,
                                      !.calls = Append(@, <<"linearFree", 0>>)]
                  ELSE d[1]
       /\ dtorFreed' = d[2]
  /\ s_instance' = IF s_instance = "this" THEN "nullptr" ELSE s_instance
  /\ ret' = Returned(res)
  /\ pc' = "done"
  /\ UNCHANGED <<kernelVersion, apt, versionData, machine, hax, hax2, s_instance2,
                 res, steps>>

\* khaxInit calls a step of MemChunkHax2.
VtableStep(here, outcomes, next) ==
  /\ pc = here
  /\ \E o \in outcomes :
       /\ hax2' = o.hax
       /\ kern' = o.kern
       /\ res' = IF o.returns THEN o.res ELSE res
       /\ steps' = IF o.returns THEN Append(steps, <<here, o.res>>) ELSE steps
       /\ pc' = IF ~o.returns THEN "spinning"
                ELSE IF o.res = 0 THEN next ELSE "dtor2"
  /\ UNCHANGED <<kernelVersion, apt, versionData, machine, hax, s_instance,
                 s_instance2, dtorFreed, ret>>

V1 == VtableStep("V1", MemChunkHax2_Step1_Initialize(hax2, kern), "V2")
V2 == VtableStep("V2", MemChunkHax2_Step2_IsolatePage(hax2, kern), "V3")
V3 == VtableStep("V3", MemChunkHax2_Step3_OverwriteVtable(hax2, kern), "V4")
V4 == VtableStep("V4", MemChunkHax2_Step4_GrantServiceAccess(hax2, kern), "dtor2")

\* A polling loop of Step3_OverwriteVtable that never leaves.
V3_Spin ==
  /\ pc = "spinning"
  /\ UNCHANGED vars

\* Variant of Dtor2_Run: s_instance is left as it is.
Dtor2_Run_KeepsInstance ==
  /\ pc = "dtor2"
  /\ \E d \in MemChunkHax2_Destructor(hax2, kern) :
       /\ hax2' = d[1]
       /\ kern' = d[2]
  /\ ret' = Returned(res)
  /\ pc' = "done"
  /\ UNCHANGED <<kernelVersion, apt, versionData, machine, hax, s_instance, res,
                 steps, dtorFreed, s_instance2>>

\* ~MemChunkHax2, and khaxInit's return of the pending result.
Dtor2_Run ==
  /\ pc = "dtor2"
  /\ \E d \in MemChunkHax2_Destructor(hax2, kern) :
       /\ hax2' = d[1]
       /\ kern' = d[2]
  /\ s_instance2' = IF s_instance2 = "this" THEN "nullptr" ELSE s_instance2
  /\ ret' = Returned(res)
  /\ pc' = "done"
  /\ UNCHANGED <<kernelVersion, apt, versionData, machine, hax, s_instance, res,
                 steps, dtorFreed>>

\* khaxExit(): does nothing.
KhaxExit ==
  /\ pc = "done"
  /\ pc' = "exited"
  /\ UNCHANGED <<kernelVersion, apt, versionData, machine, hax, s_instance, hax2,
                 s_instance2, kern, res, steps, dtorFreed, ret>>

-----------------------------------------------------------------------------
(* The systems khaxInit is run on                                          *)

\* Every kernel version of the table, and versions the table does not hold:
\* the lowest entry minus one, one in a gap, one above the highest, and 0.
KernelVersions ==
  {s_versionTable[i].m_kernelVersion : i \in 1 .. Len(s_versionTable)}
  \cup {SYSTEM_VERSION(2, 34, 0) - 1, SYSTEM_VERSION(2, 41, 0),
        SYSTEM_VERSION(2, 51, 0), 0}

AptAnswers == {[res |-> 0, flag |-> FALSE], [res |-> 0, flag |-> TRUE],
               [res |-> HostError, flag |-> FALSE]}

\* The thread's syscall ACL and the process id before the run (InitKern keeps
\* a copy of both in acl0 and pid0, which nothing writes).
InitialACLs ==
  {<<0, 0, 0, 0, 0, 0, 0, 0, 0, 0, 0, 0, 0, 0, 0, 0>>,
   <<255, 1, 0, 0, 0, 0, 0, 0, 0, 0, 0, 0, 0, 0, 0, 192>>}
InitialPIDs == {37}

Resources == {"map", "isolated", "isolating", "backup", "event", "extra"}

InitKern(acl, pid) ==
  [base |-> NULL32, alloc |-> {}, blk |-> [x \in Pages |-> FreeBlock(NULL32, NULL32)],
   patchWord |-> m_threadPatchOriginalCode, wild |-> FALSE, writeBack |-> FALSE,
   repaired |-> FALSE, freed |-> <<>>, acl |-> acl, pid |-> pid, srvPid |-> pid,
   calls |-> <<>>, held |-> {}, acquired |-> [r \in Resources |-> 0],
   released |-> [r \in Resources |-> 0], aptSessions |-> 0, cpuTimeLimit |-> 0,
   vtablePtr |-> "original", payloadRan |-> FALSE, badClose |-> 0,
   freeFailures |-> 0, doubleFrees |-> 0, pid0 |-> pid, acl0 |-> acl,
   kmode |-> <<>>, svcRet |-> <<>>, vtableAtReturn |-> "none",
   race |-> [phase |-> "idle", mapped1 |-> FALSE, mapped2 |-> FALSE,
             link |-> "next_block", second |-> "none", backupOf |-> "none",
             events |-> <<>>, delay |-> "none", allocate |-> "none",
             alive |-> TRUE, late |-> {}]]

\* What the objects' uninitialised members hold.
StaleACL == <<170, 170, 170, 170, 170, 170, 170, 170, 170, 170, 170, 170, 170, 170, 170, 170>>
StalePID == 48879

Init ==
  /\ kernelVersion \in KernelVersions
  /\ apt \in AptAnswers
  /\ pc = "start"
  /\ versionData = nullptr
  /\ machine = "none"
  /\ hax = RawMemChunkHax(StaleACL, StalePID)
  /\ s_instance = "nullptr"
  /\ hax2 = RawMemChunkHax2(StaleACL, StalePID)
  /\ s_instance2 = "nullptr"
  /\ \E acl \in InitialACLs, pid \in InitialPIDs : kern = InitKern(acl, pid)
  /\ res = 0
  /\ steps = <<>>
  /\ dtorFreed = <<>>
  /\ ret = NoReturn

Next ==
  \/ KhaxInit_Begin
  \/ L1 \/ L2 \/ L3 \/ L4 \/ L5 \/ L6 \/ L7
  \/ Dtor_Freeze \/ Dtor_Run
  \/ V1 \/ V2 \/ V3 \/ V4 \/ V3_Spin
  \/ Dtor2_Run
  \/ KhaxExit

Spec == Init /\ [][Next]_vars

-----------------------------------------------------------------------------
(* A client that calls the steps of a session in any order                 *)

\* Step n of MemChunkHax and of MemChunkHax2.
MemChunkHaxStep(n, h, k) ==
  CASE n = 1 -> Step1_Initialize(h, k)
    [] n = 2 -> Step2_AllocateMemory(h, k)
    [] n = 3 -> Step3_SurroundFree(h, k)
    [] n = 4 -> Step4_VerifyExpectedLayout(h, k)
    [] n = 5 -> Step5_CorruptCreateThread(h, k)
    [] n = 6 -> Step6_ExecuteSVCCode(h, k)
    [] n = 7 -> Step7_GrantServiceAccess(h, k)

MemChunkHax2Step(n, h, k) ==
  CASE n = 1 -> MemChunkHax2_Step1_Initialize(h, k)
    [] n = 2 -> MemChunkHax2_Step2_IsolatePage(h, k)
    [] n = 3 -> MemChunkHax2_Step3_OverwriteVtable(h, k)
    [] n = 4 -> MemChunkHax2_Step4_GrantServiceAccess(h, k)

\* A session freshly constructed on the row of the running system.
InitAnyOrder ==
  /\ kernelVersion \in KernelVersions
  /\ apt \in AptAnswers
  /\ versionData = GetForCurrentSystem(kernelVersion, apt)
  /\ versionData # nullptr
  /\ machine = Dispatch(s_versionTable[versionData])
  /\ pc = "calling"
  /\ hax = IF machine = "legacy" THEN NewMemChunkHax(versionData, StaleACL, StalePID)
           ELSE RawMemChunkHax(StaleACL, StalePID)
  /\ s_instance = IF machine = "legacy" THEN "this" ELSE "nullptr"
  /\ hax2 = IF machine = "vtable" THEN NewMemChunkHax2(versionData, StaleACL, StalePID)
            ELSE RawMemChunkHax2(StaleACL, StalePID)
  /\ s_instance2 = IF machine = "vtable" THEN "this" ELSE "nullptr"
  /\ \E acl \in InitialACLs, pid \in InitialPIDs : kern = InitKern(acl, pid)
  /\ res = 0
  /\ steps = <<>>
  /\ dtorFreed = <<>>
  /\ ret = NoReturn

\* The client calls the step m_nextStep names.  `steps' holds the last call
\* only.  After a failure, or after the last step, it makes no further call
\* in order.
CallInOrder ==
  /\ pc = "calling"
  /\ machine = "legacy"
  /\ \E o \in MemChunkHaxStep(hax.m_nextStep, hax, kern) :
       /\ hax' = o.hax
       /\ kern' = o.kern
       /\ res' = o.res
       /\ steps' = << <<hax.m_nextStep, o.res>> >>
       /\ pc' = IF o.res = 0 /\ o.hax.m_nextStep > hax.m_nextStep
                  THEN "calling" ELSE "stopped"
  /\ UNCHANGED <<kernelVersion, apt, versionData, machine, s_instance, hax2,
                 s_instance2, dtorFreed, ret>>

\* The client calls any other step.
CallOutOfOrder ==
  /\ pc \in {"calling", "stopped"}
  /\ machine = "legacy"
  /\ \E n \in (1 .. 7) \ {hax.m_nextStep} :
       \E o \in MemChunkHaxStep(n, hax, kern) :
         /\ hax' = o.hax
         /\ kern' = o.kern
         /\ res' = o.res
         /\ steps' = << <<n, o.res>> >>
  /\ UNCHANGED <<kernelVersion, apt, pc, versionData, machine, s_instance, hax2,
                 s_instance2, dtorFreed, ret>>

Call2InOrder ==
  /\ pc = "calling"
  /\ machine = "vtable"
  /\ \E o \in MemChunkHax2Step(hax2.m_nextStep, hax2, kern) :
       /\ hax2' = o.hax
       /\ kern' = o.kern
       /\ res' = IF o.returns THEN o.res ELSE res
       /\ steps' = IF o.returns THEN << <<hax2.m_nextStep, o.res>> >> ELSE steps
       /\ pc' = IF ~o.returns THEN "spinning"
                ELSE IF o.res = 0 /\ o.hax.m_nextStep > hax2.m_nextStep
                  THEN "calling" ELSE "stopped"
  /\ UNCHANGED <<kernelVersion, apt, versionData, machine, hax, s_instance,
                 s_instance2, dtorFreed, ret>>

Call2OutOfOrder ==
  /\ pc \in {"calling", "stopped"}
  /\ machine = "vtable"
  /\ \E n \in (1 .. 4) \ {hax2.m_nextStep} :
       \E o \in MemChunkHax2Step(n, hax2, kern) :
         /\ o.returns
         /\ hax2' = o.hax
         /\ kern' = o.kern
         /\ res' = o.res
         /\ steps' = << <<n, o.res>> >>
  /\ UNCHANGED <<kernelVersion, apt, pc, versionData, machine, hax, s_instance,
                 s_instance2, dtorFreed, ret>>

NextAnyOrder ==
  \/ CallInOrder \/ CallOutOfOrder
  \/ Call2InOrder \/ Call2OutOfOrder

SpecAnyOrder == InitAnyOrder /\ [][NextAnyOrder]_vars

-----------------------------------------------------------------------------
(* A client that calls a step again after it has succeeded                 *)

\* The session is driven in order as by CallInOrder and Call2InOrder; at any
\* moment the client may call once more a step that has already returned 0:
\* one below m_nextStep, or the last step after its success.  `steps' then
\* holds <<"again", n, result>>.
InitReinvoke == InitAnyOrder

Reinvoke ==
  /\ pc \in {"calling", "stopped"}
  /\ machine = "legacy"
  /\ \E n \in 1 .. 7 :
       /\ n < hax.m_nextStep \/ (pc = "stopped" /\ steps = << <<n, 0>> >>)
       /\ \E o \in MemChunkHaxStep(n, hax, kern) :
            /\ hax' = o.hax
            /\ kern' = o.kern
            /\ res' = o.res
            /\ steps' = << <<"again", n, o.res>> >>
  /\ pc' = "reinvoked"
  /\ UNCHANGED <<kernelVersion, apt, versionData, machine, s_instance, hax2,
                 s_instance2, dtorFreed, ret>>

Reinvoke2 ==
  /\ pc \in {"calling", "stopped"}
  /\ machine = "vtable"
  /\ \E n \in 1 .. 4 :
       /\ n < hax2.m_nextStep \/ (pc = "stopped" /\ steps = << <<n, 0>> >>)
       /\ \E o \in MemChunkHax2Step(n, hax2, kern) :
            /\ o.returns
            /\ hax2' = o.hax
            /\ kern' = o.kern
            /\ res' = o.res
            /\ steps' = << <<"again", n, o.res>> >>
  /\ pc' = "reinvoked"
  /\ UNCHANGED <<kernelVersion, apt, versionData, machine, hax, s_instance,
                 s_instance2, dtorFreed, ret>>

NextReinvoke == CallInOrder \/ Call2InOrder \/ Reinvoke \/ Reinvoke2

SpecReinvoke == InitReinvoke /\ [][NextReinvoke]_vars

-----------------------------------------------------------------------------
(* A client of the address translation                                     *)

\* How many translations the client asks for.
MaxTranslations == 2

\* User addresses handed to the translation: unmapped ones, the ends of both
\* mappings of the linear heap, the middle of the new mapping, VRAM and DSP
\* memory.
TranslateAddresses ==
  {NULL32, W(\H0800, 0), W(\H1400, 0), W(\H1410, 0), W(\H1410, \H5000),
   W(\H1BFF, \HFFFF), W(\H1F00, 0), W(\H1FF0, 0), W(\H3000, 0),
   W(\H37FF, \HFFFF), W(\H3800, 0), W(\H3FFF, \HFFFF), W(\H4000, 0)}

\* Some row of the table, no session and no translation made yet.
InitTranslate ==
  /\ versionData \in 1 .. Len(s_versionTable)
  /\ kernelVersion = s_versionTable[versionData].m_kernelVersion
  /\ apt = [res |-> 0, flag |-> s_versionTable[versionData].m_new3DS]
  /\ pc = "translating"
  /\ machine = "none"
  /\ hax = RawMemChunkHax(StaleACL, StalePID)
  /\ s_instance = "nullptr"
  /\ hax2 = RawMemChunkHax2(StaleACL, StalePID)
  /\ s_instance2 = "nullptr"
  /\ \E acl \in InitialACLs, pid \in InitialPIDs : kern = InitKern(acl, pid)
  /\ res = 0
  /\ steps = <<>>
  /\ dtorFreed = <<>>
  /\ ret = NoReturn

\* versionData->ConvertLinearUserVAToKernelVA(address); `steps' logs the call
\* as <<address, result>>.
Translate ==
  /\ pc = "translating"
  /\ Len(steps) < MaxTranslations
  /\ \E address \in TranslateAddresses :
       steps' = Append(steps, <<address, ConvertLinearUserVAToKernelVA(
                                            s_versionTable[versionData], address)>>)
  /\ UNCHANGED <<kernelVersion, apt, pc, versionData, machine, hax, s_instance,
                 hax2, s_instance2, kern, res, dtorFreed, ret>>

NextTranslate == Translate

SpecTranslate == InitTranslate /\ [][NextTranslate]_vars

-----------------------------------------------------------------------------
(* A client of Step4_VerifyExpectedLayout                                  *)

\* Where the six pages lie: in the old mapping of the linear heap, in the new
\* one, and in the new one with the last 128 MiB boundary between pages 2
\* and 3 (pages 3 to 5 are then beyond the FCRAM size of an old 3DS row).
VerifyAddresses == {W(\H1410, 0), W(\H3020, 0), W(\H37FF, \HD000)}

\* What page 2 may hold as its forward link and page 4 as its backward link.
VerifyNextLinks(row, base) == {KPage(row, base, 4), NULL32, AfterBlock(row)}
VerifyPrevLinks(row, base) == {KPage(row, base, 2), NULL32, BeforeBlock(row)}

\* A session that has done Steps 1 to 3: pages 2 and 4 are free, their links
\* are what the kernel left there.
InitVerify ==
  /\ versionData \in 1 .. Len(s_versionTable)
  /\ kernelVersion = s_versionTable[versionData].m_kernelVersion
  /\ apt = [res |-> 0, flag |-> s_versionTable[versionData].m_new3DS]
  /\ pc = "verifying"
  /\ machine = "legacy"
  /\ \E base \in VerifyAddresses :
       /\ hax = [NewMemChunkHax(versionData, StaleACL, StalePID) EXCEPT
                   !.m_nextStep = 4, !.m_overwriteMemory = base,
                   !.m_overwriteAllocated = 43,
                   !.m_extraLinear = W(\H1400, \H0040)]
       /\ \E acl \in InitialACLs, pid \in InitialPIDs,
             next \in VerifyNextLinks(s_versionTable[versionData], base),
             prev \in VerifyPrevLinks(s_versionTable[versionData], base) :
            kern = [InitKern(acl, pid) EXCEPT
                      !.base = base, !.alloc = {0, 1, 3, 5},
                      !.freed = <<2, 4>>, !.held = {"extra"},
                      !.acquired["extra"] = 1,
                      !.blk[2] = FreeBlock(next, BeforeBlock(s_versionTable[versionData])),
                      !.blk[4] = FreeBlock(AfterBlock(s_versionTable[versionData]), prev)]
  /\ s_instance = "this"
  /\ hax2 = RawMemChunkHax2(StaleACL, StalePID)
  /\ s_instance2 = "nullptr"
  /\ res = 0
  /\ steps = <<>>
  /\ dtorFreed = <<>>
  /\ ret = NoReturn

\* hax.Step4_VerifyExpectedLayout(); `steps' keeps the call and its result.
Verify ==
  /\ pc = "verifying"
  /\ \E o \in Step4_VerifyExpectedLayout(hax, kern) :
       /\ hax' = o.hax
       /\ kern' = o.kern
       /\ res' = o.res
       /\ steps' = Append(steps, <<"L4", o.res>>)
  /\ pc' = "verified"
  /\ UNCHANGED <<kernelVersion, apt, versionData, machine, s_instance, hax2,
                 s_instance2, dtorFreed, ret>>

NextVerify == Verify

SpecVerify == InitVerify /\ [][NextVerify]_vars

-----------------------------------------------------------------------------
(* The two service-access steps side by side                               *)

\* Process ids the two steps start from.
SideBySidePIDs == {0, 37}

\* ACLs they start from: the one both grants write, and one without
\* svcBackdoor.
SideBySideACLs == {s_fullAccessACL} \cup InitialACLs

\* A MemChunkHax and a MemChunkHax2 on the same kernel state, both at their
\* last step (or both one step before it).
InitSideBySide ==
  /\ versionData \in 1 .. Len(s_versionTable)
  /\ kernelVersion = s_versionTable[versionData].m_kernelVersion
  /\ apt = [res |-> 0, flag |-> s_versionTable[versionData].m_new3DS]
  /\ pc = "side_by_side"
  /\ machine = "both"
  /\ \E inTurn \in BOOLEAN :
       /\ hax = [NewMemChunkHax(versionData, StaleACL, StalePID) EXCEPT
                   !.m_nextStep = IF inTurn THEN 7 ELSE 6]
       /\ hax2 = [NewMemChunkHax2(versionData, StaleACL, StalePID) EXCEPT
                    !.m_nextStep = IF inTurn THEN 4 ELSE 3]
  /\ s_instance = "this"
  /\ s_instance2 = "this"
  /\ \E acl \in SideBySideACLs, pid \in SideBySidePIDs : kern = InitKern(acl, pid)
  /\ res = 0
  /\ steps = <<>>
  /\ dtorFreed = <<>>
  /\ ret = NoReturn

\* What one run shows: its result, the process id it leaves and the host
\* calls it made.
Shown(name, o) == <<name, o.res, o.kern.pid, o.kern.calls>>

\* Both steps are run from the state at hand against the same answers of the
\* host; `steps' keeps what each run shows, `kern' what the legacy run left.
RunBoth ==
  /\ pc = "side_by_side"
  /\ \E sc \in HostScripts :
       LET o7 == Step7_GrantServiceAccess_On(hax, kern, sc)
           o4 == MemChunkHax2_Step4_GrantServiceAccess_On(hax2, kern, sc)
       IN  /\ hax' = o7.hax
           /\ hax2' = o4.hax
           /\ kern' = o7.kern
           /\ res' = o7.res
           /\ steps' = <<Shown("L7", o7), Shown("V4", o4)>>
  /\ pc' = "compared"
  /\ UNCHANGED <<kernelVersion, apt, versionData, machine, s_instance,
                 s_instance2, dtorFreed, ret>>

NextSideBySide == RunBoth

SpecSideBySide == InitSideBySide /\ [][NextSideBySide]_vars

-----------------------------------------------------------------------------
(* The kernel calling through the replacement table                        *)

\* How many calls through the table the kernel makes.
MaxSlotCalls == 2

\* The slots of m_vtable.
VtableSlots == 0 .. 9

\* A MemChunkHax2 whose table sits at the event object.
InitSlots ==
  /\ versionData \in 1 .. Len(s_versionTable)
  /\ kernelVersion = s_versionTable[versionData].m_kernelVersion
  /\ apt = [res |-> 0, flag |-> s_versionTable[versionData].m_new3DS]
  /\ pc = "calling"
  /\ machine = "vtable"
  /\ hax = RawMemChunkHax(StaleACL, StalePID)
  /\ s_instance = "nullptr"
  /\ hax2 = [NewMemChunkHax2(versionData, StaleACL, StalePID) EXCEPT
               !.m_nextStep = 3, !.m_oldVtable = "original"]
  /\ s_instance2 = "this"
  /\ \E acl \in InitialACLs, pid \in InitialPIDs :
       kern = [InitKern(acl, pid) EXCEPT !.vtablePtr = "m_vtable"]
  /\ res = 0
  /\ steps = <<>>
  /\ dtorFreed = <<>>
  /\ ret = NoReturn

\* The kernel calls slot i of the table; `steps' keeps the slot and how many
\* host-side calls had been logged before.
CallSlot ==
  /\ pc = "calling"
  /\ Len(steps) < MaxSlotCalls
  /\ \E i \in VtableSlots :
       LET c == m_vtable(i, hax2, kern)
       IN  /\ hax2' = c[1]
           /\ kern' = c[2]
           /\ steps' = Append(steps, <<i, Len(kern.calls)>>)
  /\ UNCHANGED <<kernelVersion, apt, pc, versionData, machine, hax, s_instance,
                 s_instance2, res, dtorFreed, ret>>

NextSlots == CallSlot

SpecSlots == InitSlots /\ [][NextSlots]_vars

-----------------------------------------------------------------------------
(* The race of Step3_OverwriteVtable, thread by thread                     *)

\* kern.race is the state of the allocate thread's svcControlMemory:
\*   phase     where the call stands: "idle", "committed1" (first page
\*             mapped), "walked" (the kernel has followed the forward link of
\*             the first page), "committed2" (second page mapped),
\*             "finalized" (its content cleared), "returned" or "refused";
\*   mapped1, mapped2   whether the two polled pages are mapped;
\*   link      the forward link in the first page: "next_block" or, once the
\*             main thread has overwritten it, "fake_header";
\*   second    the page the kernel took second: "next_block" or "object_page";
\*   backupOf  what the main thread's backup holds;
\*   events    the events so far, in order;
\*   delay, allocate   each helper thread: "none" (not created), "running" or
\*             "exited";
\*   alive     whether the MemChunkHax2 object still exists;
\*   late      the helper threads that have read or written a member of the
\*             object after its destruction.
\* The delay thread only changes how long the phases last.

Event(k, e) == [k EXCEPT !.race.events = Append(@, e)]

\* A session in Step3_OverwriteVtable with both threads created.
InitRace ==
  /\ versionData \in {i \in 1 .. Len(s_versionTable) : Dispatch(s_versionTable[i]) = "vtable"}
  /\ kernelVersion = s_versionTable[versionData].m_kernelVersion
  /\ apt = [res |-> 0, flag |-> s_versionTable[versionData].m_new3DS]
  /\ pc = "poll1"
  /\ machine = "vtable"
  /\ hax = RawMemChunkHax(StaleACL, StalePID)
  /\ s_instance = "nullptr"
  /\ s_instance2 = "this"
  /\ \E acl \in InitialACLs, pid \in InitialPIDs :
       \E o1 \in MemChunkHax2_Step1_Initialize(
                   NewMemChunkHax2(versionData, StaleACL, StalePID), InitKern(acl, pid)) :
         /\ o1.res = 0
         /\ \E o2 \in MemChunkHax2_Step2_IsolatePage(o1.hax, o1.kern) :
              /\ o2.res = 0
              /\ hax2 = Step3_ThreadsCreated(o2.hax, o2.kern)[1]
              /\ kern = Step3_ThreadsCreated(o2.hax, o2.kern)[2]
  /\ res = 0
  /\ steps = <<<<"V1", 0>>, <<"V2", 0>>>>
  /\ dtorFreed = <<>>
  /\ ret = NoReturn

RaceUnchanged == <<kernelVersion, apt, versionData, machine, hax, s_instance,
                   s_instance2, dtorFreed, ret>>

\* Step3b_AllocateThread, inside svcControlMemory: the kernel maps the first
\* page.
K_Commit1 ==
  /\ kern.race.allocate = "running"
  /\ kern.race.phase = "idle"
  /\ kern' = Event([kern EXCEPT !.race.phase = "committed1", !.race.mapped1 = TRUE,
                                !.calls = Append(@, <<"alloc", "map">>)], "commit1")
  /\ UNCHANGED <<pc, hax2, res, steps>>
  /\ UNCHANGED RaceUnchanged

\* The kernel follows the forward link of the first page to the next block.
K_Walk ==
  /\ kern.race.phase = "committed1"
  /\ kern' = Event([kern EXCEPT !.race.phase = "walked",
                                !.race.second = IF kern.race.link = "fake_header"
                                                  THEN "object_page" ELSE "next_block"],
                   "walk")
  /\ UNCHANGED <<pc, hax2, res, steps>>
  /\ UNCHANGED RaceUnchanged

\* The kernel maps the second page.
K_Commit2 ==
  /\ kern.race.phase = "walked"
  /\ kern' = Event([kern EXCEPT !.race.phase = "committed2", !.race.mapped2 = TRUE],
                   "commit2")
  /\ UNCHANGED <<pc, hax2, res, steps>>
  /\ UNCHANGED RaceUnchanged

\* The kernel clears the second page.
K_Finalize ==
  /\ kern.race.phase = "committed2"
  /\ kern' = Event([kern EXCEPT !.race.phase = "finalized"], "finalize")
  /\ UNCHANGED <<pc, hax2, res, steps>>
  /\ UNCHANGED RaceUnchanged

\* svcControlMemory returns 0 and the thread stores it in m_mapResult.
K_Return ==
  /\ kern.race.phase = "finalized"
  /\ kern' = Event(Acquire([kern EXCEPT !.race.phase = "returned",
                                        !.race.allocate = "exited",
                                        !.race.late = IF kern.race.alive THEN @
                                                      ELSE @ \cup {"allocate"}],
                           "map"),
                   "map_returned")
  /\ hax2' = [hax2 EXCEPT !.m_mapResult = 0]
  /\ UNCHANGED <<pc, res, steps>>
  /\ UNCHANGED RaceUnchanged

\* svcControlMemory fails, wherever it stands, and the thread stores the
\* error in m_mapResult.
K_Refuse ==
  /\ kern.race.allocate = "running"
  /\ kern.race.phase \in {"idle", "committed1", "walked", "committed2", "finalized"}
  /\ kern' = Event([kern EXCEPT !.race.phase = "refused",
                                !.race.allocate = "exited",
                                !.race.late = IF kern.race.alive THEN @
                                              ELSE @ \cup {"allocate"},
                                !.calls = IF kern.race.phase = "idle"
                                            THEN Append(@, <<"alloc", "map">>) ELSE @],
                   "map_returned")
  /\ hax2' = [hax2 EXCEPT !.m_mapResult = HostError]
  /\ UNCHANGED <<pc, res, steps>>
  /\ UNCHANGED RaceUnchanged

\* The first polling loop leaves when svcArbitrateAddress stops answering
\* 0xD9001814, that is when m_mapAddr is mapped; until then each turn of the
\* loop changes nothing.
M_Poll1 ==
  /\ pc = "poll1"
  /\ kern.race.mapped1
  /\ pc' = "overwrite"
  /\ UNCHANGED <<hax2, kern, res, steps>>
  /\ UNCHANGED RaceUnchanged

\* reinterpret_cast<HeapFreeBlock*>(m_mapAddr)->m_next = the fake header.
M_Overwrite ==
  /\ pc = "overwrite"
  /\ kern' = Event([kern EXCEPT !.race.link = "fake_header"], "overwrite")
  /\ pc' = "poll2"
  /\ UNCHANGED <<hax2, res, steps>>
  /\ UNCHANGED RaceUnchanged

\* The second polling loop, on m_mapAddr + PAGE_SIZE.
M_Poll2 ==
  /\ pc = "poll2"
  /\ kern.race.mapped2
  /\ pc' = "backup"
  /\ UNCHANGED <<hax2, kern, res, steps>>
  /\ UNCHANGED RaceUnchanged

\* memcpy(m_backup, m_mapAddr + PAGE_SIZE, PAGE_SIZE).
M_Backup ==
  /\ pc = "backup"
  /\ kern' = Event([kern EXCEPT !.race.backupOf =
                                  IF kern.race.phase \in {"finalized", "returned"}
                                    THEN "cleared" ELSE kern.race.second],
                   "backup")
  /\ pc' = "check"
  /\ UNCHANGED <<hax2, res, steps>>
  /\ UNCHANGED RaceUnchanged

\* if (m_mapResult != -1) return MakeError(26, 3, KHAX_MODULE, 1003);
M_Check ==
  /\ pc = "check"
  /\ IF hax2.m_mapResult # -1
       THEN /\ res' = MakeError(26, 3, KHAX_MODULE, 1003)
            /\ steps' = Append(steps, <<"V3", res'>>)
            /\ pc' = "returned"
       ELSE /\ pc' = "wait"
            /\ UNCHANGED <<res, steps>>
  /\ UNCHANGED <<hax2, kern>>
  /\ UNCHANGED RaceUnchanged

\* while (m_mapResult == -1) svcSleepThread(1000000); then the test of
\* R_FAILED(m_mapResult).
M_Wait ==
  /\ pc = "wait"
  /\ hax2.m_mapResult # -1
  /\ IF R_FAILED(hax2.m_mapResult)
       THEN /\ res' = hax2.m_mapResult
            /\ steps' = Append(steps, <<"V3", res'>>)
            /\ pc' = "returned"
       ELSE /\ pc' = "swap"
            /\ UNCHANGED <<res, steps>>
  /\ UNCHANGED <<hax2, kern>>
  /\ UNCHANGED RaceUnchanged

\* The rest of Step3_OverwriteVtable.
M_Swap ==
  /\ pc = "swap"
  /\ LET o == Step3_Swap(hax2, Event(kern, "swap"), kern.race.second = "object_page")
     IN  /\ hax2' = o.hax
         /\ kern' = o.kern
         /\ res' = o.res
         /\ steps' = Append(steps, <<"V3", o.res>>)
  /\ pc' = "returned"
  /\ UNCHANGED RaceUnchanged

AllocateThread == K_Commit1 \/ K_Walk \/ K_Commit2 \/ K_Finalize \/ K_Return \/ K_Refuse

MainThread == M_Poll1 \/ M_Overwrite \/ M_Poll2 \/ M_Backup \/ M_Check \/ M_Wait \/ M_Swap

NextRace == AllocateThread \/ MainThread

SpecRace == InitRace /\ [][NextRace]_vars

\* Both threads keep running.
SpecRaceFair == SpecRace /\ WF_vars(AllocateThread) /\ WF_vars(MainThread)

-----------------------------------------------------------------------------
(* khaxInit on the vtable path with its helper threads                     *)

\* Values the caller's later stack frames may leave where m_mapResult was.
ReusedValues == {-1, 37}

\* Step3_OverwriteVtable up to the allocation of the backup buffer, when
\* nothing fails on the way: <<object, kernel>>.
Step3_BackupAllocated(h, k) ==
  LET k1 == Acquire([k EXCEPT !.calls = Append(@, <<"svcCreateEvent", 0>>)], "event")
  IN  <<[h EXCEPT !.m_kObjHandle = EventHandle, !.m_kObjAddr = EventKAddr(VD(h)),
                  !.m_backup = TRUE],
        Acquire(k1, "backup")>>

\* khaxInit inside Step3_OverwriteVtable, about to create the delay thread.
InitThreads ==
  /\ versionData \in {i \in 1 .. Len(s_versionTable) : Dispatch(s_versionTable[i]) = "vtable"}
  /\ kernelVersion = s_versionTable[versionData].m_kernelVersion
  /\ apt = [res |-> 0, flag |-> s_versionTable[versionData].m_new3DS]
  /\ pc = "create_delay"
  /\ machine = "vtable"
  /\ hax = RawMemChunkHax(StaleACL, StalePID)
  /\ s_instance = "nullptr"
  /\ s_instance2 = "this"
  /\ \E acl \in InitialACLs, pid \in InitialPIDs :
       \E o1 \in MemChunkHax2_Step1_Initialize(
                   NewMemChunkHax2(versionData, StaleACL, StalePID), InitKern(acl, pid)) :
         /\ o1.res = 0
         /\ \E o2 \in MemChunkHax2_Step2_IsolatePage(o1.hax, o1.kern) :
              /\ o2.res = 0
              /\ hax2 = Step3_BackupAllocated(o2.hax, o2.kern)[1]
              /\ kern = Step3_BackupAllocated(o2.hax, o2.kern)[2]
  /\ res = 0
  /\ steps = <<<<"V1", 0>>, <<"V2", 0>>>>
  /\ dtorFreed = <<>>
  /\ ret = NoReturn

\* m_delayThread = threadCreate(Step3a_DelayThread, ...), and the return of
\* MakeError(26, 3, KHAX_MODULE, 1011) when it gives NULL.
T_CreateDelay ==
  /\ pc = "create_delay"
  /\ \/ /\ hax2' = [hax2 EXCEPT !.m_delayThread = DelayThread]
        /\ kern' = [kern EXCEPT !.calls = Append(@, <<"threadCreate", "delay">>),
                                !.race.delay = "running"]
        /\ pc' = "create_allocate"
        /\ UNCHANGED <<res, steps>>
     \/ /\ kern' = [kern EXCEPT !.calls = Append(@, <<"threadCreate", "delay">>)]
        /\ res' = MakeError(26, 3, KHAX_MODULE, 1011)
        /\ steps' = Append(steps, <<"V3", res'>>)
        /\ pc' = "returned"
        /\ UNCHANGED hax2
  /\ UNCHANGED RaceUnchanged

\* threadCreate(Step3b_AllocateThread, ...), and the return of
\* MakeError(26, 3, KHAX_MODULE, 1011) when it gives NULL.
T_CreateAllocate ==
  /\ pc = "create_allocate"
  /\ \/ /\ kern' = [kern EXCEPT !.calls = Append(@, <<"threadCreate", "allocate">>),
                                !.race.allocate = "running"]
        /\ pc' = "poll1"
        /\ UNCHANGED <<res, steps>>
     \/ /\ kern' = [kern EXCEPT !.calls = Append(@, <<"threadCreate", "allocate">>)]
        /\ res' = MakeError(26, 3, KHAX_MODULE, 1011)
        /\ steps' = Append(steps, <<"V3", res'>>)
        /\ pc' = "returned"
  /\ UNCHANGED hax2
  /\ UNCHANGED RaceUnchanged

\* Step3a_DelayThread: while (hax->m_mapResult == -1) svcSleepThread(10000).
\* The thread leaves when it reads another value; a read of -1 changes
\* nothing.  The read is made whether or not the object still exists.
D_Leave ==
  /\ kern.race.delay = "running"
  /\ hax2.m_mapResult # -1
  /\ kern' = [kern EXCEPT !.race.delay = "exited",
                          !.race.late = IF kern.race.alive THEN @ ELSE @ \cup {"delay"}]
  /\ UNCHANGED <<pc, hax2, res, steps>>
  /\ UNCHANGED RaceUnchanged

\* khaxInit calls Step4_GrantServiceAccess after Step 3 has returned 0.
T_Step4 ==
  /\ pc = "returned"
  /\ res = 0
  /\ \E o \in MemChunkHax2_Step4_GrantServiceAccess(hax2, kern) :
       /\ hax2' = o.hax
       /\ kern' = o.kern
       /\ res' = o.res
       /\ steps' = Append(steps, <<"V4", o.res>>)
  /\ pc' = "dtor2"
  /\ UNCHANGED RaceUnchanged

\* ~MemChunkHax2 and khaxInit's return: the object, a local of khaxInit,
\* ceases to exist.
T_Destroy ==
  /\ pc = "dtor2" \/ (pc = "returned" /\ res # 0)
  /\ \E d \in MemChunkHax2_Destructor(hax2, kern) :
       /\ hax2' = d[1]
       /\ kern' = [d[2] EXCEPT !.race.alive = FALSE]
  /\ s_instance2' = IF s_instance2 = "this" THEN "nullptr" ELSE s_instance2
  /\ ret' = Returned(res)
  /\ pc' = "done"
  /\ UNCHANGED <<kernelVersion, apt, versionData, machine, hax, s_instance, res,
                 steps, dtorFreed>>

\* After khaxInit has returned, its caller's later calls reuse the stack
\* where the object was.
StackReuse ==
  /\ pc = "done"
  /\ ~kern.race.alive
  /\ \E v \in ReusedValues : hax2' = [hax2 EXCEPT !.m_mapResult = v]
  /\ UNCHANGED <<pc, kern, res, steps>>
  /\ UNCHANGED RaceUnchanged

KhaxInitThread == T_CreateDelay \/ T_CreateAllocate \/ MainThread \/ T_Step4 \/ T_Destroy

NextThreads == KhaxInitThread \/ AllocateThread \/ D_Leave \/ StackReuse

SpecThreads == InitThreads /\ [][NextThreads]_vars

\* The three threads keep running; nothing says what the caller does with
\* its stack.
SpecThreadsFair ==
  SpecThreads /\ WF_vars(KhaxInitThread) /\ WF_vars(AllocateThread) /\ WF_vars(D_Leave)

-----------------------------------------------------------------------------
(* Properties                                                              *)

LegacyOrder == <<"L1", "L2", "L3", "L4", "L5", "L6", "L7">>
VtableOrder == <<"V1", "V2", "V3", "V4">>

HasReturned == ret # NoReturn

\* The rows of the table whose version and flag are the ones the system
\* reports (IsNew3DS having answered `flag').
MatchingRows(version, flag) ==
  {i \in 1 .. Len(s_versionTable) :
     /\ s_versionTable[i].m_kernelVersion = version
     /\ s_versionTable[i].m_new3DS = flag}

\* C1: khaxInit calls the steps of the machine it selected in their order
\* and calls no step after one that returned non-zero; when it returns, the
\* session is destroyed and the return value is the result of the last step
\* called, which is 0 only if every step of the machine was called and
\* returned 0.  (A destructor that freezes never lets khaxInit return.)
C1_StopsAtFirstFailure ==
  LET order == IF machine = "legacy" THEN LegacyOrder ELSE VtableOrder
      n == Len(steps)
  IN  /\ n <= Len(order)
      /\ \A i \in 1 .. n : /\ steps[i][1] = order[i]
                           /\ i < n => steps[i][2] = 0
      /\ (n > 0 /\ steps[n][2] # 0) =>
           pc \in {"dtor", "frozen", "dtor2", "done", "exited"}
      /\ (HasReturned /\ machine # "none") =>
           /\ n > 0
           /\ ret = Returned(steps[n][2])
           /\ s_instance = "nullptr" /\ s_instance2 = "nullptr"
           /\ ret = Returned(0) => n = Len(order)

\* khaxInit has returned the non-zero result of Step3_SurroundFree.
C1_Witness ==
  /\ pc = "done"
  /\ machine = "legacy"
  /\ Len(steps) = 3
  /\ steps[3][2] # 0
  /\ ret = Returned(steps[3][2])

\* C2: once Step5_CorruptCreateThread has issued the write-back copy to
\* page 2, khaxInit does not return unless the repairs of Step 6 have run and
\* the corruption counter is 0.
C2_NoReturnWithoutRepair ==
  (kern.writeBack /\ HasReturned) => (kern.repaired /\ hax.m_corrupted = 0)

\* C3: a destructor entered with a non-zero corruption counter freezes and
\* stays frozen: no page is freed, s_instance keeps pointing at the object,
\* khaxInit does not return.  Entered with a zero counter, it runs to its
\* end and khaxInit returns the pending result.
C3_FreezeOrReturn ==
  [][/\ ((pc = "dtor" /\ hax.m_corrupted # 0) \/ pc = "frozen") =>
          /\ pc' = "frozen"
          /\ UNCHANGED <<hax, kern, s_instance, dtorFreed, ret>>
          /\ ret' = NoReturn /\ s_instance' = "this" /\ dtorFreed' = <<>>
     /\ (pc = "dtor" /\ hax.m_corrupted = 0) =>
          /\ pc' = "done"
          /\ ret' = Returned(res)
          /\ s_instance' = "nullptr"]_vars

\* The destructor is frozen with broken kernel invariants outstanding.
C3_Witness ==
  /\ pc = "frozen"
  /\ hax.m_corrupted = 3
  /\ kern.patchWord # m_threadPatchOriginalCode

C5_OutOfOrderRejected ==
  [][(pc' \in {"calling", "stopped"} /\ steps' # <<>>) =>
       LET call == steps'[1]
           next == IF machine = "legacy" THEN hax.m_nextStep ELSE hax2.m_nextStep
       IN  call[1] # next =>
             /\ call[2] = MakeError(28, 5, KHAX_MODULE, 1016)
             /\ res' = call[2]
             /\ UNCHANGED <<hax, hax2, kern, s_instance, s_instance2>>]_vars

\* Step5_CorruptCreateThread was called on a session that has yet to verify
\* the layout, and was rejected.
C5_Witness ==
  /\ machine = "legacy"
  /\ hax.m_nextStep = 4
  /\ steps = << <<5, SeqError>> >>
  /\ res = SeqError

\* C6: when ~MemChunkHax has returned, it has issued a free for exactly the
\* pages whose bit is set in m_overwriteAllocated, in ascending order and once
\* each, and no free of the run was issued for a page that was not allocated.
C6_FreesExactlyMarkedPages ==
  (pc \in {"done", "exited"} /\ machine = "legacy") =>
    LET marked == {x \in Pages : Bit(hax.m_overwriteAllocated, x)}
    IN  /\ Len(dtorFreed) = Cardinality(marked)
        /\ \A i \in 1 .. Len(dtorFreed) : dtorFreed[i] \in marked
        /\ \A i, j \in 1 .. Len(dtorFreed) : i < j => dtorFreed[i] < dtorFreed[j]
        /\ kern.doubleFrees = 0

\* The destructor ran after Step 3 had freed pages 2 and 4.
C6_Witness ==
  /\ pc = "done"
  /\ machine = "legacy"
  /\ Len(steps) >= 4
  /\ dtorFreed = <<0, 1, 3, 5>>

\* C7: when IsNew3DS fails or no row has the system's version and flag,
\* khaxInit returns a non-zero code having constructed no object and made no
\* call to the host or the kernel.
C7_FailsClosed ==
  LET q == IsNew3DS(kernelVersion, kernelVersion, apt)
  IN  (pc # "start" /\ (q[1] # 0 \/ MatchingRows(kernelVersion, q[2]) = {})) =>
        /\ pc \in {"done", "exited"}
        /\ HasReturned /\ ret # Returned(0)
        /\ versionData = nullptr /\ machine = "none"
        /\ s_instance = "nullptr" /\ s_instance2 = "nullptr"
        /\ hax.m_nextStep = 0 /\ hax2.m_nextStep = 0
        /\ steps = <<>>
        /\ kern \in {InitKern(acl, pid) : acl \in InitialACLs, pid \in InitialPIDs}

\* khaxInit has returned on a New 3DS whose APT_CheckNew3DS failed.
C7_Witness ==
  /\ pc = "done"
  /\ kernelVersion = SYSTEM_VERSION(2, 46, 0)
  /\ apt.res # 0
  /\ ret = Returned(UnknownVersionError)

\* C8: when IsNew3DS answers, the lookup returns the row that has the
\* system's kernel version and flag, for every row, and nullptr when no row
\* has them; the session is built on that row.
C8_LookupExact ==
  LET q == IsNew3DS(kernelVersion, kernelVersion, apt)
      rows == MatchingRows(kernelVersion, q[2])
  IN  (pc # "start" /\ q[1] = 0) =>
        /\ \A i \in rows : versionData = i
        /\ rows = {} => versionData = nullptr
        /\ machine = "legacy" => hax.m_versionData = versionData
        /\ machine = "vtable" => hax2.m_versionData = versionData

\* The lookup has found the New 3DS row of kernel 2.46.0.
C8_Witness ==
  /\ pc # "start"
  /\ kernelVersion = SYSTEM_VERSION(2, 46, 0)
  /\ apt = [res |-> 0, flag |-> TRUE]
  /\ versionData = 16
  /\ s_versionTable[versionData].m_threadPatchAddress = W(\HDFF8, \H3837)

\* C9: no two rows of the table have the same kernel version and flag, and
\* the row the lookup returns is the last matching one as well as the first.
C9_AtMostOneRow ==
  /\ \A i, j \in 1 .. Len(s_versionTable) :
       (/\ s_versionTable[i].m_kernelVersion = s_versionTable[j].m_kernelVersion
        /\ s_versionTable[i].m_new3DS = s_versionTable[j].m_new3DS) => i = j
  /\ LET q == IsNew3DS(kernelVersion, kernelVersion, apt)
         rows == MatchingRows(kernelVersion, q[2])
     IN  (pc # "start" /\ q[1] = 0 /\ rows # {}) =>
           /\ versionData = CHOOSE i \in rows : \A j \in rows : i <= j
           /\ versionData = CHOOSE i \in rows : \A j \in rows : j <= i

\* The lookup has found the old 3DS row of a version the table holds twice.
C9_Witness ==
  /\ pc # "start"
  /\ kernelVersion = SYSTEM_VERSION(2, 46, 0)
  /\ apt = [res |-> 0, flag |-> FALSE]
  /\ versionData = 9

\* C10: every row is dispatched to MemChunkHax exactly when its two patch
\* addresses are non-zero and to MemChunkHax2 exactly when they are zero;
\* only the object of that class is constructed, and khaxInit returns 0 only
\* after steps of a machine were run.
C10_DispatchByPatchAddresses ==
  /\ (pc # "start" /\ versionData # nullptr) =>
       LET row == s_versionTable[versionData]
           patched == /\ row.m_threadPatchAddress # NULL32
                      /\ row.m_syscallPatchAddress # NULL32
           unpatched == /\ row.m_threadPatchAddress = NULL32
                        /\ row.m_syscallPatchAddress = NULL32
       IN  /\ machine = "legacy" <=> patched
           /\ machine = "vtable" <=> unpatched
           /\ machine \in {"legacy", "vtable"}
           /\ hax.m_nextStep > 0 <=> machine = "legacy"
           /\ hax2.m_nextStep > 0 <=> machine = "vtable"
  /\ ret = Returned(0) => (machine # "none" /\ steps # <<>>)

\* khaxInit has returned 0 through MemChunkHax2 on a row without patch
\* addresses.
C10_Witness ==
  /\ ret = Returned(0)
  /\ machine = "vtable"
  /\ s_versionTable[versionData].m_threadPatchAddress = NULL32
  /\ Len(steps) = 4

\* C11: when the service-access step of either machine has returned 0, the
\* process id the kernel holds is the one the step saved in m_originalPID,
\* and it is the process id of before the run.
C11_PidRoundTrip ==
  /\ (machine = "legacy" /\ Len(steps) = 7 /\ steps[7][2] = 0) =>
       (kern.pid = hax.m_originalPID /\ kern.pid = kern.pid0)
  /\ (machine = "vtable" /\ Len(steps) = 4 /\ steps[4][2] = 0) =>
       (kern.pid = hax2.m_originalPID /\ kern.pid = kern.pid0)

\* The legacy run succeeded: the service manager saw process id 0 and the
\* kernel holds the original process id again.
C11_Witness ==
  /\ machine = "legacy"
  /\ Len(steps) = 7
  /\ steps[7][2] = 0
  /\ kern.srvPid = 0
  /\ kern.pid = kern.pid0

\* C12: once the service-access step of either machine has returned, every
\* invocation of the PID-zero patch it made was followed by an invocation of
\* the PID-restore patch.
C12_PatchAlwaysRestored ==
  ((machine = "legacy" /\ Len(steps) = 7) \/ (machine = "vtable" /\ Len(steps) = 4)) =>
    \A i \in 1 .. Len(kern.calls) :
      kern.calls[i][1] = "PatchPID" =>
        \E j \in (i + 1) .. Len(kern.calls) : kern.calls[j][1] = "UnpatchPID"

\* Bit n of a 128-bit syscall ACL kept as 16 bytes.
AclBit(acl, n) == (acl[(n \div 8) + 1] \div (2 ^ (n % 8))) % 2 = 1

\* The mask with every bit set except 0x00, 0x7E and 0x7F.
IsFullAccess(acl) == \A n \in 0 .. 127 : AclBit(acl, n) <=> n \notin {0, 126, 127}

\* C13: once the payload of either machine has run, the thread's ACL has
\* every bit set except 0x00, 0x7E and 0x7F whatever it was before, the
\* session holds the ACL of before the run in m_oldACL, and the two payloads
\* write the same mask.
C13_GrantWritesFullMask ==
  /\ kern.repaired => (IsFullAccess(kern.acl) /\ hax.m_oldACL = kern.acl0)
  /\ kern.payloadRan => (IsFullAccess(kern.acl) /\ hax2.m_oldACL = kern.acl0)
  /\ s_fullAccessACL = MemChunkHax2_s_fullAccessACL

\* The legacy payload has run on a thread whose ACL had bits set before.
C13_Witness ==
  /\ kern.repaired
  /\ kern.acl0[1] = 255
  /\ kern.acl # kern.acl0
  /\ hax.m_oldACL = kern.acl0

\* C14: when Step4_VerifyExpectedLayout has returned an error, the session
\* has issued no copy to a freed page and no store to kernel memory, the
\* corruption counter is 0 and m_nextStep is 4; the destructor does not
\* freeze, and when it has returned it has issued frees for pages 0, 1, 3
\* and 5 and for no other page.
C14_MismatchIsRecoverable ==
  (machine = "legacy" /\ Len(steps) = 4 /\ steps[4][2] # 0) =>
    /\ hax.m_corrupted = 0
    /\ hax.m_nextStep = 4
    /\ ~kern.writeBack
    /\ \A i \in 1 .. Len(kern.calls) : kern.calls[i][1] # "gspwn_write"
    /\ kern.patchWord = m_threadPatchOriginalCode
    /\ ~kern.wild
    /\ ~kern.repaired
    /\ kern.acl = kern.acl0 /\ kern.pid = kern.pid0
    /\ pc \in {"dtor", "done", "exited"}
    /\ pc \in {"done", "exited"} => dtorFreed = <<0, 1, 3, 5>>

\* khaxInit has returned the layout-mismatch code of Step 4.
C14_Witness ==
  /\ pc = "done"
  /\ Len(steps) = 4
  /\ steps[4][2] = MakeError(26, 5, KHAX_MODULE, 1014)
  /\ ret = Returned(MakeError(26, 5, KHAX_MODULE, 1014))
  /\ dtorFreed = <<0, 1, 3, 5>>

\* Whether a physical address lies in [physical base, physical base + size)
\* of a row.
InFcram(row, physical) ==
  /\ Ge32(physical, m_fcramPhysicalAddress)
  /\ Lt32(physical, Add32(m_fcramPhysicalAddress, row.m_fcramSize))

\* C15: for the row at hand, every translation of an address whose physical
\* address is in range gives kernel virtual base + (physical - physical
\* base), which differs from the physical address by kernel virtual base -
\* physical base; two such translations of distinct physical addresses give
\* distinct kernel addresses.
C15_TranslationIsAffine ==
  pc = "translating" =>
    LET row == s_versionTable[versionData]
        phys(i) == osConvertVirtToPhys(steps[i][1])
    IN  /\ \A i \in 1 .. Len(steps) :
             InFcram(row, phys(i)) =>
               /\ steps[i][2] = Add32(row.m_fcramVirtualAddress,
                                      Sub32(phys(i), m_fcramPhysicalAddress))
               /\ Sub32(steps[i][2], phys(i)) =
                    Sub32(row.m_fcramVirtualAddress, m_fcramPhysicalAddress)
        /\ \A i, j \in 1 .. Len(steps) :
             (InFcram(row, phys(i)) /\ InFcram(row, phys(j)) /\ phys(i) # phys(j)) =>
               steps[i][2] # steps[j][2]

\* Two addresses of the new mapping were translated on a New 3DS row, one of
\* them in the upper half of its region.
C15_Witness ==
  /\ pc = "translating"
  /\ s_versionTable[versionData].m_new3DS
  /\ Len(steps) = 2
  /\ steps[1] = <<W(\H3000, 0), W(\HE000, 0)>>
  /\ steps[2] = <<W(\H3FFF, \HFFFF), W(\HEFFF, \HFFFF)>>

\* C16: a translation returns null exactly when the host's query gives 0,
\* the physical address is below the physical base, or it is at or beyond
\* physical base + region size.
C16_NullExactlyOutOfRange ==
  pc = "translating" =>
    LET row == s_versionTable[versionData]
    IN  \A i \in 1 .. Len(steps) :
          LET physical == osConvertVirtToPhys(steps[i][1])
          IN  steps[i][2] = NULL32 <=>
                \/ physical = NULL32
                \/ Lt32(physical, m_fcramPhysicalAddress)
                \/ Ge32(physical, Add32(m_fcramPhysicalAddress, row.m_fcramSize))

\* On an old 3DS row the address whose physical address is exactly physical
\* base + region size was translated to null.
C16_Witness ==
  /\ pc = "translating"
  /\ ~s_versionTable[versionData].m_new3DS
  /\ Len(steps) >= 1
  /\ steps[1] = <<W(\H3800, 0), NULL32>>

\* What ~MemChunkHax2 and Step3_OverwriteVtable return to the system.
VtableResources == {"map", "isolated", "isolating", "backup", "event"}

\* The host refused a release of `what' that the program asked for.
ReleaseRefused(what) ==
  /\ kern.freeFailures > 0
  /\ \E i \in 1 .. Len(kern.calls) : kern.calls[i] = <<"free", what>>

Step5FreeRequested == \E i \in 1 .. Len(kern.calls) : kern.calls[i] = <<"free", 1>>

\* C18: when Step5_CorruptCreateThread has returned, m_corrupted is 3 after a
\* success (the write-back copy was made and the second page freed), 2 after
\* a failure of the free of the second page, and 0 after any earlier failure
\* (looked at before the destructor has run).
C18_Step5Counter ==
  (machine = "legacy" /\ Len(steps) = 5 /\ pc \notin {"done", "exited"}) =>
    IF steps[5][2] = 0
      THEN /\ hax.m_corrupted = 3
           /\ kern.writeBack
           /\ Step5FreeRequested
           /\ 1 \notin kern.alloc
      ELSE /\ hax.m_corrupted = IF Step5FreeRequested THEN 2 ELSE 0
           /\ Step5FreeRequested => (kern.writeBack /\ 1 \in kern.alloc)
           /\ hax.m_nextStep = 5

\* The free of the second page failed after the write-back copy.
C18_Witness ==
  /\ machine = "legacy"
  /\ Len(steps) = 5
  /\ pc \notin {"done", "exited"}
  /\ steps[5][2] = HostError
  /\ Step5FreeRequested
  /\ kern.writeBack
  /\ hax.m_corrupted = 2

\* What the kernel's log holds after one run of Step6b_SVCEntryPoint.
Step6bOrder == <<<<"Step6c", 2>>, <<"Step6d", 0>>, <<"Step6e", 0>>>>

\* C19: the kernel-mode body runs Step6c_UndoCreateThreadPatch (m_corrupted
\* 3 to 2), then Step6d_FixHeapCorruption (2 to 0), then
\* Step6e_GrantSVCAccess; the ACL is written only with m_corrupted at 0, and
\* the system call returns the sentinel (Step6_ExecuteSVCCode returns 0) only
\* after all three.
C19_KernelBodyOrder ==
  /\ kern.kmode \in {<<>>, Step6bOrder}
  /\ \A i \in 1 .. Len(kern.kmode) : kern.kmode[i][1] = "Step6e" => kern.kmode[i][2] = 0
  /\ kern.repaired <=> kern.kmode = Step6bOrder
  /\ (machine = "legacy" /\ kern.acl # kern.acl0) => kern.kmode = Step6bOrder
  /\ (machine = "legacy" /\ Len(steps) >= 6 /\ steps[6][2] = 0) => kern.kmode = Step6bOrder

\* Step6_ExecuteSVCCode has succeeded and the kernel-mode body has run.
C19_Witness ==
  /\ machine = "legacy"
  /\ Len(steps) = 6
  /\ steps[6][2] = 0
  /\ kern.kmode = Step6bOrder
  /\ kern.acl = s_fullAccessACL
  /\ hax.m_corrupted = 0

\* C20: when Step6_ExecuteSVCCode has made the system call, it returns 0 and
\* moves m_nextStep to 7 exactly when the system call returned 0x1337C0DE; a
\* system call result of 0 becomes a non-zero error and any other result is
\* returned as it is, m_nextStep staying at 6 in both cases.
C20_SentinelOnly ==
  (machine = "legacy" /\ Len(steps) >= 6) =>
    /\ Len(kern.svcRet) = 1
    /\ LET r == kern.svcRet[1]
           result == steps[6][2]
       IN  /\ result = 0 <=> r = STEP6_SUCCESS_RESULT
           /\ r = 0 => (result = MakeError(27, 11, KHAX_MODULE, 1023) /\ result # 0)
           /\ r \notin {0, STEP6_SUCCESS_RESULT} => result = r
           /\ Len(steps) = 6 =>
                hax.m_nextStep = IF r = STEP6_SUCCESS_RESULT THEN 7 ELSE 6

\* The system call returned 0 and Step6_ExecuteSVCCode made an error of it.
C20_Witness ==
  /\ machine = "legacy"
  /\ Len(steps) = 6
  /\ kern.svcRet = <<0>>
  /\ steps[6][2] = MakeError(27, 11, KHAX_MODULE, 1023)
  /\ hax.m_nextStep = 6

\* C21: when Step6_ExecuteSVCCode has succeeded (and before anything else
\* runs), the free block that starts at page 1 links forward to the free
\* block at page 4, that block links back to page 1, and the patched word of
\* svcCreateThread holds the original instruction again.
C21_FreeListRepaired ==
  (machine = "legacy" /\ Len(steps) = 6 /\ steps[6][2] = 0) =>
    LET row == s_versionTable[versionData]
    IN  /\ {1, 2, 4} \cap kern.alloc = {}
        /\ kern.blk[1].m_next = KPage(row, kern.base, 4)
        /\ kern.blk[4].m_prev = KPage(row, kern.base, 1)
        /\ kern.patchWord = m_threadPatchOriginalCode
        /\ ~kern.wild

\* Step 5 had broken both links and the instruction, and Step 6 has mended
\* them.
C21_Witness ==
  /\ machine = "legacy"
  /\ Len(steps) = 6
  /\ steps[6][2] = 0
  /\ kern.writeBack
  /\ kern.repaired
  /\ kern.blk[1].m_next = KPage(s_versionTable[versionData], kern.base, 4)
  /\ kern.blk[4].m_prev = KPage(s_versionTable[versionData], kern.base, 1)

ServiceCallNames == {"svcGetProcessId", "PatchPID", "UnpatchPID", "srvExit", "srvInit"}
IsServiceCall(c) == c[1] \in ServiceCallNames
ServiceCalls == SelectSeq(kern.calls, IsServiceCall)
ServiceCallOrder == [i \in 1 .. Len(ServiceCalls) |-> ServiceCalls[i][1]]

\* C25: when Step7_GrantServiceAccess has returned, its host calls are a
\* query (the saved PID), the zero patch, a query, srvExit, srvInit, the
\* restore patch and a query, in that order, cut short only by a failed query
\* or a non-zero second read; srvInit is called only while the PID reads 0,
\* and the step returns 0 only when every query succeeded, the second read 0
\* and the third read the saved PID.
C25_ServiceAccessOrder ==
  (machine = "legacy" /\ Len(steps) = 7) =>
    LET q == "svcGetProcessId"
        full == <<q, "PatchPID", q, "srvExit", "srvInit", "UnpatchPID", q>>
        c == ServiceCalls
    IN  /\ ServiceCallOrder \in {<<q>>, <<q, "PatchPID", q>>,
                                 <<q, "PatchPID", q, "UnpatchPID">>, full}
        /\ ServiceCallOrder = <<q>> => c[1][2] < 0
        /\ ServiceCallOrder = <<q, "PatchPID", q>> => c[3][2] > 0
        /\ ServiceCallOrder = <<q, "PatchPID", q, "UnpatchPID">> => c[3][2] < 0
        /\ Len(c) > 1 => hax.m_originalPID = c[1][2]
        /\ \A i \in 1 .. Len(c) :
             c[i][1] = "srvInit" => (c[i][2] = 0 /\ c[3][2] = 0 /\ kern.srvPid = 0)
        /\ steps[7][2] = 0 <=>
             (ServiceCallOrder = full /\ c[7][2] = hax.m_originalPID)
        /\ ServiceCallOrder # full => steps[7][2] # 0

\* The whole protocol ran and the step returned 0.
C25_Witness ==
  /\ machine = "legacy"
  /\ Len(steps) = 7
  /\ steps[7][2] = 0
  /\ Len(ServiceCalls) = 7
  /\ ServiceCalls[5] = <<"srvInit", 0>>
  /\ ServiceCalls[6] = <<"UnpatchPID", 37>>
  /\ ServiceCalls[7] = <<"svcGetProcessId", 37>>

\* C26: run from the same state against the same answers of the host,
\* Step7_GrantServiceAccess and MemChunkHax2's Step4_GrantServiceAccess
\* return the same result, leave the same process id, make the same host
\* calls in the same order and save the same original process id.
C26_SameProtocol ==
  pc = "compared" =>
    /\ steps[1][2] = steps[2][2]
    /\ steps[1][3] = steps[2][3]
    /\ steps[1][4] = steps[2][4]
    /\ hax.m_originalPID = hax2.m_originalPID

\* Both runs failed at the second query and both restored the process id.
C26_Witness ==
  /\ pc = "compared"
  /\ steps[1][2] = HostError
  /\ steps[2][2] = HostError
  /\ steps[1][4] = <<<<"svcGetProcessId", 37>>, <<"PatchPID", 0>>,
                     <<"svcGetProcessId", HostError>>, <<"UnpatchPID", 37>>>>
  /\ steps[2][4] = steps[1][4]
  /\ steps[1][3] = 37
  /\ steps[2][3] = 37

\* C29: when the hijacked destructor call has returned to the kernel, the
\* object's vtable pointer held the original table at that moment.
C29_PayloadRestoresVtable ==
  kern.payloadRan => kern.vtableAtReturn = "original"

\* How many entries a call of slot i adds to the log.
SlotLogLen(i) == IF i = KEVENT_DESTRUCTOR THEN 2 ELSE 1

\* C30: each call of slot i of the replacement table calls slot i of the
\* original table exactly once; for the nine other slots nothing else
\* happens, and for slot 4 the payload runs next (the ACL is granted and
\* m_kernelResult set).
C30_TableForwards ==
  pc = "calling" =>
    /\ \A n \in 1 .. Len(steps) :
         LET i == steps[n][1]
             at == steps[n][2]
             end == IF n < Len(steps) THEN steps[n + 1][2] ELSE Len(kern.calls)
         IN  /\ end = at + SlotLogLen(i)
             /\ kern.calls[at + 1] = <<"oldVtable", i>>
             /\ i = KEVENT_DESTRUCTOR => kern.calls[at + 2] = <<"Step3d_SVCEntryPoint", 0>>
    /\ Len(steps) = 0 => kern.calls = <<>>
    /\ (\E n \in 1 .. Len(steps) : steps[n][1] = KEVENT_DESTRUCTOR)
         <=> (kern.acl = MemChunkHax2_s_fullAccessACL /\ hax2.m_kernelResult = 0)
    /\ (\A n \in 1 .. Len(steps) : steps[n][1] # KEVENT_DESTRUCTOR)
         => (kern.acl = kern.acl0 /\ hax2.m_kernelResult = -1
             /\ hax2.m_oldACL = StaleACL /\ kern.vtableAtReturn = "none")

\* The kernel called slot 5 and then the destructor slot.
C30_Witness ==
  /\ pc = "calling"
  /\ steps = <<<<5, 0>>, <<4, 1>>>>
  /\ kern.calls = <<<<"oldVtable", 5>>, <<"oldVtable", 4>>,
                    <<"Step3d_SVCEntryPoint", 0>>>>
  /\ kern.acl = MemChunkHax2_s_fullAccessACL
  /\ hax2.m_kernelResult = 0

\* Position of an event in the race so far (0 when it has not happened).
Pos(e) ==
  IF \E i \in 1 .. Len(kern.race.events) : kern.race.events[i] = e
    THEN CHOOSE i \in 1 .. Len(kern.race.events) : kern.race.events[i] = e
    ELSE 0

\* Event a has happened, and before event b if b has happened at all.
Before(a, b) == Pos(a) > 0 /\ (Pos(b) = 0 \/ Pos(a) < Pos(b))

\* C27: in every interleaving in which Step3_OverwriteVtable swaps the vtable
\* pointer, the forward link was overwritten after the first page was mapped
\* and before the second page was cleared, and the backup was taken before
\* svcControlMemory returned; when svcControlMemory has returned by the time
\* the backup is done, Step 3 returns MakeError(26, 3, KHAX_MODULE, 1003) and
\* swaps nothing.
C27_RaceOrdering ==
  /\ Pos("swap") > 0 =>
       /\ Before("commit1", "overwrite")
       /\ Before("overwrite", "finalize")
       /\ Before("backup", "map_returned")
  /\ (pc = "returned" /\ Before("map_returned", "backup") /\ Pos("backup") > 0) =>
       /\ steps[3] = <<"V3", MakeError(26, 3, KHAX_MODULE, 1003)>>
       /\ Pos("swap") = 0
       /\ kern.vtablePtr = "original"

\* C28: in every fair execution Step3_OverwriteVtable eventually returns.
C28_Step3Returns == <>(pc = "returned")

\* Whether the host call log holds svcCloseHandle and, after it, the entry of
\* Step3d_SVCEntryPoint.
PayloadDuringClose ==
  \E i, j \in 1 .. Len(kern.calls) :
    /\ i < j
    /\ kern.calls[i] = <<"svcCloseHandle", 0>>
    /\ kern.calls[j] = <<"Step3d_SVCEntryPoint", 0>>

\* C31: m_kernelResult starts at -1 and only the payload sets it to 0;
\* Step3_OverwriteVtable returns 0 and leaves the step counter at 4 only if
\* the payload ran during the handle close and granted the ACL, and it returns
\* a non-zero code, the counter staying at 3, whenever m_kernelResult is not 0
\* after the close.
C31_Step3NeedsPayload ==
  machine = "vtable" =>
    /\ hax2.m_kernelResult = (IF kern.payloadRan THEN 0 ELSE -1)
    /\ (Len(steps) >= 3 /\ steps[3][2] = 0) =>
         /\ kern.payloadRan
         /\ PayloadDuringClose
         /\ kern.acl = MemChunkHax2_s_fullAccessACL
         /\ hax2.m_oldACL = kern.acl0
         /\ hax2.m_nextStep = 4
    /\ (Len(steps) >= 3 /\ hax2.m_kernelResult # 0) =>
         /\ steps[3][2] # 0
         /\ hax2.m_nextStep = 3

\* Step 3 has returned 0 after the payload ran, and khaxInit is about to call
\* Step 4.
C31_Witness ==
  /\ machine = "vtable"
  /\ pc = "V4"
  /\ steps[3] = <<"V3", 0>>
  /\ kern.payloadRan
  /\ hax2.m_kernelResult = 0
  /\ hax2.m_nextStep = 4

\* The addresses of the two pages Step2_IsolatePage asks for.
IsolatedAddr == Add32(HeapEnd, Add32(PAGE_SIZE, PAGE_SIZE))
IsolatingAddr == Add32(IsolatedAddr, PAGE_SIZE)

\* The program asked the host to free `what'.
FreeRequested(what) == \E i \in 1 .. Len(kern.calls) : kern.calls[i] = <<"free", what>>

\* C32: after Step2_IsolatePage has succeeded the isolated page has been
\* freed and the isolating page, one page above it, is held and recorded in
\* m_isolatingPage until the destructor runs; after a failure of the second
\* allocation or of the free the step counter is still 2 and every page that
\* is held is recorded in its field, and the destructor asks the host to free
\* each of them.
C32_IsolatePage ==
  (machine = "vtable" /\ Len(steps) >= 2) =>
    /\ steps[2][2] = 0 =>
         /\ kern.acquired["isolated"] = 1 /\ kern.released["isolated"] = 1
         /\ "isolated" \notin kern.held
         /\ kern.acquired["isolating"] = 1
         /\ hax2.m_isolatedPage = NULL32
         /\ pc \notin {"done", "exited"} =>
              /\ "isolating" \in kern.held
              /\ kern.released["isolating"] = 0
              /\ hax2.m_isolatingPage = IsolatingAddr
              /\ hax2.m_nextStep >= 3
    /\ (steps[2][2] # 0 /\ pc \notin {"done", "exited"}) =>
         /\ hax2.m_nextStep = 2
         /\ "isolated" \in kern.held => hax2.m_isolatedPage = IsolatedAddr
         /\ "isolating" \in kern.held => hax2.m_isolatingPage = IsolatingAddr
    /\ pc \in {"done", "exited"} =>
         \A r \in {"isolated", "isolating"} :
           /\ kern.acquired[r] = 1 => FreeRequested(r)
           /\ r \in kern.held => ReleaseRefused(r)

\* The free of the isolated page failed in Step 2 with both pages allocated,
\* and the destructor has given both back.
C32_Witness ==
  /\ machine = "vtable"
  /\ pc = "done"
  /\ Len(steps) = 2
  /\ steps[2] = <<"V2", HostError>>
  /\ kern.acquired["isolated"] = 1 /\ kern.released["isolated"] = 1
  /\ kern.acquired["isolating"] = 1 /\ kern.released["isolating"] = 1
  /\ kern.freeFailures = 1

\* The positions of khaxInit at which a MemChunkHax, or a MemChunkHax2, is
\* alive; its steps, and with them every callback the kernel runs, happen
\* there.
LegacyAlive == {"L1", "L2", "L3", "L4", "L5", "L6", "L7", "dtor", "frozen"}
VtableAlive == {"V1", "V2", "V3", "V4", "spinning", "dtor2"}

\* C33: each s_instance is written at two places only, set to the object by
\* the constructor and cleared by the destructor; it names the live object
\* for as long as there is one, so at every step and callback, and it is null
\* before the construction and once khaxInit has returned.
C33_SingleWriter ==
  /\ [](/\ s_instance = (IF pc \in LegacyAlive THEN "this" ELSE "nullptr")
        /\ s_instance2 = (IF pc \in VtableAlive THEN "this" ELSE "nullptr")
        /\ HasReturned => (s_instance = "nullptr" /\ s_instance2 = "nullptr"))
  /\ [][/\ s_instance' # s_instance =>
             \/ pc = "start" /\ pc' = "L1" /\ s_instance' = "this"
             \/ pc = "dtor" /\ pc' = "done" /\ s_instance' = "nullptr"
        /\ s_instance2' # s_instance2 =>
             \/ pc = "start" /\ pc' = "V1" /\ s_instance2' = "this"
             \/ pc = "dtor2" /\ pc' = "done" /\ s_instance2' = "nullptr"]_vars

\* khaxInit has returned from the vtable path after the thunk and the PID
\* patches went through s_instance.
C33_Witness ==
  /\ machine = "vtable"
  /\ pc = "done"
  /\ HasReturned
  /\ kern.payloadRan
  /\ \E i \in 1 .. Len(kern.calls) : kern.calls[i][1] = "UnpatchPID"
  /\ s_instance2 = "nullptr"

\* C34: the thread's syscall ACL changes only in the kernel-mode step (Step 6
\* of MemChunkHax, Step 3 of MemChunkHax2), from the ACL the thread started
\* with to the full-access mask, the old one being saved in m_oldACL; once it
\* is the full-access mask, no step, destructor or khaxExit changes it, and
\* m_oldACL is never written back.
C34_AclKept ==
  [][/\ kern.acl = s_fullAccessACL => kern'.acl = s_fullAccessACL
     /\ kern'.acl # kern.acl =>
          /\ pc \in {"L6", "V3"}
          /\ kern.acl = kern.acl0
          /\ kern'.acl = s_fullAccessACL
          /\ pc = "L6" => hax'.m_oldACL = kern.acl
          /\ pc = "V3" => hax2'.m_oldACL = kern.acl]_vars

\* Step 7 failed after the grant; the destructor and khaxExit have run and
\* the ACL is still the full-access mask, the old one still saved.
C34_Witness ==
  /\ machine = "legacy"
  /\ pc = "exited"
  /\ Len(steps) = 7
  /\ steps[7][2] # 0
  /\ kern.acl = s_fullAccessACL
  /\ hax.m_oldACL = kern.acl0
  /\ kern.acl0 # kern.acl

\* The number of the last step of the session's machine.
LastStep == IF machine = "legacy" THEN 7 ELSE 4

\* C35 as stated: m_nextStep never decreases; a step that returns 0 leaves it
\* one higher; and a step called again after it has returned 0, the last step
\* included, returns MakeError(28, 5, KHAX_MODULE, 1016) and changes nothing.
C35_NoStepTwice ==
  [][/\ hax'.m_nextStep >= hax.m_nextStep
     /\ hax2'.m_nextStep >= hax2.m_nextStep
     /\ (pc = "calling" /\ pc' \in {"calling", "stopped"} /\ res' = 0) =>
          /\ machine = "legacy" => hax'.m_nextStep = hax.m_nextStep + 1
          /\ machine = "vtable" => hax2'.m_nextStep = hax2.m_nextStep + 1
     /\ pc' = "reinvoked" =>
          /\ res' = MakeError(28, 5, KHAX_MODULE, 1016)
          /\ UNCHANGED <<hax, hax2, kern, s_instance, s_instance2>>]_vars

\* C35, amended: m_nextStep never decreases; every step but the last leaves it
\* one higher when it returns 0, and called again after that it returns
\* MakeError(28, 5, KHAX_MODULE, 1016) and changes nothing; the last step
\* leaves m_nextStep as it is, and called again it passes its guard and runs
\* its body once more (it asks the host for the process id again).
C35_NoEarlierStepTwice ==
  [][/\ hax'.m_nextStep >= hax.m_nextStep
     /\ hax2'.m_nextStep >= hax2.m_nextStep
     /\ (pc = "calling" /\ pc' \in {"calling", "stopped"} /\ res' = 0) =>
          /\ machine = "legacy" =>
               hax'.m_nextStep = hax.m_nextStep + (IF steps'[1][1] = LastStep THEN 0 ELSE 1)
          /\ machine = "vtable" =>
               hax2'.m_nextStep = hax2.m_nextStep + (IF steps'[1][1] = LastStep THEN 0 ELSE 1)
     /\ (pc' = "reinvoked" /\ steps'[1][2] # LastStep) =>
          /\ res' = MakeError(28, 5, KHAX_MODULE, 1016)
          /\ UNCHANGED <<hax, hax2, kern, s_instance, s_instance2>>
     /\ (pc' = "reinvoked" /\ steps'[1][2] = LastStep) =>
          /\ res' # MakeError(28, 5, KHAX_MODULE, 1016)
          /\ Len(kern'.calls) > Len(kern.calls)
          /\ kern'.calls[Len(kern.calls) + 1][1] = "svcGetProcessId"]_vars

\* Step6_ExecuteSVCCode was called again after it had succeeded and was
\* rejected, the counter standing at 7.
C35_Witness ==
  /\ machine = "legacy"
  /\ pc = "reinvoked"
  /\ steps = << <<"again", 6, MakeError(28, 5, KHAX_MODULE, 1016)>> >>
  /\ hax.m_nextStep = 7
  /\ kern.acl = s_fullAccessACL

\* C36: m_corrupted is 0, 1, 2 or 3 in every state, so the destructor's test
\* m_corrupted > 0 is the test m_corrupted # 0; the repairs of Step 6 run only
\* after Step5_CorruptCreateThread has returned 0 with the counter at 3, the
\* unpatch leaving it at 2 and the heap repair at 0.
C36_CounterRange ==
  /\ hax.m_corrupted \in 0 .. 3
  /\ DtorFreezes(hax) <=> hax.m_corrupted # 0
  /\ \A i \in 1 .. Len(kern.kmode) :
       /\ kern.kmode[i][2] \in 0 .. 3
       /\ kern.kmode[i][1] \in {"Step6c", "Step6d"} =>
            /\ Len(steps) >= 5
            /\ steps[5] = <<"L5", 0>>
            /\ kern.writeBack
       /\ kern.kmode[i][1] = "Step6c" => kern.kmode[i][2] = 2
       /\ kern.kmode[i][1] = "Step6d" => kern.kmode[i][2] = 0

\* Both repairs have run after a successful Step 5 and the counter is back
\* at 0.
C36_Witness ==
  /\ machine = "legacy"
  /\ Len(steps) >= 6
  /\ steps[5] = <<"L5", 0>>
  /\ \E i, j \in 1 .. Len(kern.kmode) :
       /\ i < j
       /\ kern.kmode[i] = <<"Step6c", 2>>
       /\ kern.kmode[j] = <<"Step6d", 0>>
  /\ hax.m_corrupted = 0

\* The calls a step has added to the host call log include the free of the
\* mapped range.
MapFreedInStep ==
  \E i \in (Len(kern.calls) + 1) .. Len(kern'.calls) : kern'.calls[i] = <<"free", "map">>

\* C37: when ~MemChunkHax2 runs, the allocate thread is not running; it asks
\* the host to free the mapped range only if the allocate thread's
\* svcControlMemory returned 0; and when it stores 0 in m_mapResult itself
\* (the field was -1, no allocate thread exists), it does not free the range.
C37_MapResultOwnership ==
  [][(pc # "done" /\ pc' = "done") =>
       /\ kern.race.allocate # "running"
       /\ MapFreedInStep => (kern.race.phase = "returned" /\ hax2.m_mapResult = 0)
       /\ hax2'.m_mapResult # hax2.m_mapResult =>
            /\ hax2.m_mapResult = -1
            /\ hax2'.m_mapResult = 0
            /\ kern.race.allocate = "none"
            /\ kern.race.delay = "running"
            /\ ~MapFreedInStep
            /\ kern'.released["map"] = 0]_vars

\* The allocate thread could not be created: the destructor has stored 0 for
\* the delay thread and has not asked for the mapped range to be freed.
C37_Witness ==
  /\ pc = "done"
  /\ kern.race.allocate = "none"
  /\ kern.race.delay # "none"
  /\ hax2.m_mapResult = 0
  /\ ~FreeRequested("map")
  /\ kern.acquired["map"] = 0

\* C38: under fair scheduling a delay thread that runs eventually ends.
C38_DelayThreadEnds == (kern.race.delay = "running") ~> (kern.race.delay = "exited")

\* C39: no helper thread reads or writes a member of the MemChunkHax2 object
\* after the destructor has run and khaxInit has returned.
C39_NoAccessAfterDestruction == kern.race.late = {}

\* C40: once MemChunkHax2::Step1_Initialize has returned, with 0 or with the
\* error of APT_SetAppCpuTimeLimit, every session it opened with
\* aptOpenSession has been closed.
C40_AptSessionClosed ==
  (machine = "vtable" /\ Len(steps) >= 1) => kern.aptSessions = 0

=============================================================================
